---- MODULE Spec2Model ----
(***************************************************************************)
(* AgentWallet (src/frontend/src/utils/amount.ts, lines 60-502: the        *)
(* Solidity contract) together with the ERC20 ledger it settles against    *)
(* (TestUSDC, src/test/AgentWallet.t.sol).                                  *)
(*                                                                         *)
(* Every external function of the contract is an operator from a contract  *)
(* state and the call's inputs to a result [st, err]: st is the storage as *)
(* the function left it when it returned or reverted, err the error kind   *)
(* ("ok" when it returned).  The EVM discards the storage writes of a call *)
(* that reverts: Revert models that.  A payment with a non-empty payload   *)
(* hands control to the merchant: the model stops there (cb.active) and    *)
(* the merchant's code runs as further steps until it returns or reverts.  *)
(***************************************************************************)
EXTENDS Integers, FiniteSets, Sequences, TLC

\* ------------------------------------------------------------------ bounds
\* The largest uint256 of the model: checked arithmetic panics above it.
MaxUint == 5
\* Amounts and limits are drawn from 0..MaxAmt, and MaxUint.
MaxAmt == 2
\* uint64 values (lastReset, nextExecutionAt, periodSeconds) are kept modulo this.
Uint64Mod == 8
\* The clock stops here (block.timestamp stays below Uint64Mod).
MaxTime == 3
\* createAgent is offered until this many agents exist.
MaxAgents == 2
\* createSubscription is offered until an agent has this many subscriptions.
MaxSubs == 2
\* Tokens alice holds when the contract is deployed (the whole supply).
InitFunds == 2
\* Steps the merchant's code may take inside one callback.
MaxCbSteps == 1

\* ------------------------------------------------------- program constants
\* `1 days` in model ticks (one tick is half a day).
OneDay == 2
\* The minimum periodSeconds (60 s), one tick in the model.
MinPeriod == 1
NOT_ENTERED == 1
ENTERED == 2

Null == "0x0"
Wallet == "wallet"
Addrs == {"alice", "bot", "shop"}
AddrsOrNull == Addrs \cup {Null}
Holders == Addrs \cup {Wallet}

AgentIds == 0..MaxAgents
SubIds == 0..MaxSubs
Amts == 0..MaxAmt
\* The callers of transactions; "shop" is a merchant contract and acts only
\* when it is called (CallbackReturn) or pulls what it was authorized to (Pull).
TopCallers == {"alice", "bot"}
Creators == {"alice"}
Delegates == {Null, "bot"}
Merchants == {Null, "shop"}
\* (dailyLimit, perTxLimit) inputs: every valid pair over 1..MaxAmt, and the
\* three ways of being invalid.
LimitVals == 1..MaxAmt
LimitPairs == {q \in LimitVals \X LimitVals : q[2] <= q[1]}
                \cup {<<0, 1>>, <<1, 0>>, <<1, 2>>}
PayAmts == Amts
\* (hasData, extOk) inputs: a direct transfer the token accepts or refuses, and
\* a callback payment.
Settlements == {<<FALSE, TRUE>>, <<FALSE, FALSE>>, <<TRUE, TRUE>>}
Times == 0..(Uint64Mod - 1)

VARIABLES
  now,                 \* block.timestamp
  nextAgentId,
  agents,              \* _agents: agentId -> AgentConfig (policy fields inlined)
  merchantWhitelist,   \* _merchantWhitelist: agentId -> address -> bool
  balances,            \* _balances
  subscriptions,       \* _subscriptions: agentId -> subId -> Subscription
  nextSubscriptionId,  \* _nextSubscriptionId
  status,              \* ReentrancyGuard._status
  tokBalances,         \* TestUSDC._balances
  tokAllowances,       \* TestUSDC._allowances, as <<owner, spender>> -> amount
  cb,                  \* the merchant callback in progress, if any
  snap,                \* the storage at the start of the transaction in progress
  last,                \* the most recent call: [op, err], see Outcome
  debits,              \* history: what successful payments debited, by agent and time
  relay,               \* the relay server: its agentStore and its last response
  _owner               \* Ownable._owner: the owner of the wallet contract

vars == <<now, nextAgentId, agents, merchantWhitelist, balances, subscriptions,
          nextSubscriptionId, status, tokBalances, tokAllowances, cb, snap, last,
          debits, relay, _owner>>

\* The storage of the two contracts as one value.
S == [nextAgentId |-> nextAgentId, agents |-> agents, wl |-> merchantWhitelist,
      bal |-> balances, subs |-> subscriptions, nextSubId |-> nextSubscriptionId,
      status |-> status, tok |-> tokBalances, alw |-> tokAllowances, owner |-> _owner]

NoAgent == [owner |-> Null, agent |-> Null, active |-> FALSE, dailyLimit |-> 0,
            perTxLimit |-> 0, spentToday |-> 0, lastReset |-> 0]
NoSub == [merchant |-> Null, amountPerPeriod |-> 0, periodSeconds |-> 0,
          nextExecutionAt |-> 0, active |-> FALSE]
AllowancePairs == (Holders \X Holders)

\* The account that deploys the wallet contract.
Deployer == "alice"

InitStorage ==
  [nextAgentId |-> 0,
   agents |-> [i \in AgentIds |-> NoAgent],
   wl |-> [i \in AgentIds |-> [m \in Holders \cup {Null} |-> FALSE]],
   bal |-> [i \in AgentIds |-> 0],
   subs |-> [i \in AgentIds |-> [k \in SubIds |-> NoSub]],
   nextSubId |-> [i \in AgentIds |-> 0],
   status |-> NOT_ENTERED,
   tok |-> [h \in Holders |-> IF h = "alice" THEN InitFunds ELSE 0],
   alw |-> [p \in AllowancePairs |-> 0],
   owner |-> Deployer]

Result(s, e) == [st |-> s, err |-> e]

\* uint64(x)
Uint64(x) == x % Uint64Mod

\* ------------------------------------------------------------- the token
\* Mutant: the recipient is credited and the sender is not debited.
tokTransferNoDebit(s, from, to, amount) ==
  IF s.tok[from] < amount THEN Result(s, "TokenRevert")
  ELSE Result([s EXCEPT !.tok[to] = @ + amount], "ok")

\* TestUSDC._transfer: reverts when the sender's balance is too small.
tokTransfer(s, from, to, amount) ==
  IF s.tok[from] < amount THEN Result(s, "TokenRevert")
  ELSE Result([s EXCEPT !.tok = [[@ EXCEPT ![from] = @ - amount]
                                    EXCEPT ![to] = @ + amount]], "ok")

\* TestUSDC.mint: anyone may mint test tokens to anyone.
tokMint(s, to, amount) == [s EXCEPT !.tok[to] = @ + amount]

\* TestUSDC.transferFrom, called by spender.
\* Mutant: a pull leaves the spender's allowance as it was.
tokTransferFromKeepAllowance(s, spender, from, to, amount) ==
  IF s.alw[<<from, spender>>] < amount THEN Result(s, "TokenRevert")
  ELSE tokTransfer(s, from, to, amount)

tokTransferFrom(s, spender, from, to, amount) ==
  IF s.alw[<<from, spender>>] < amount THEN Result(s, "TokenRevert")
  ELSE tokTransfer([s EXCEPT !.alw[<<from, spender>>] = @ - amount], from, to, amount)

\* Mutant: the allowance is increased by amount, not set to it.
tokApproveAdd(s, owner, spender, amount) ==
  [s EXCEPT !.alw[<<owner, spender>>] = @ + amount]

\* TestUSDC.approve, called by owner.
tokApprove(s, owner, spender, amount) ==
  [s EXCEPT !.alw[<<owner, spender>>] = amount]

\* ------------------------------------------------------------- Ownable
transferOwnership(s, sender, newOwner) ==
  IF sender # s.owner THEN Result(s, "Ownable: caller not owner")
  ELSE IF newOwner = Null THEN Result(s, "Ownable: zero address")
  ELSE Result([s EXCEPT !.owner = newOwner], "ok")

\* ------------------------------------------------- modifiers and helpers
agentExists(s, agentId) == s.agents[agentId].owner # Null
onlyAgentOwner(s, agentId, sender) == s.agents[agentId].owner = sender
\* Mutant: the owner passes for the delegate.
onlyAgentOrOwner(s, agentId, sender) ==
  s.agents[agentId].agent = sender \/ s.agents[agentId].owner = sender
onlyAgent(s, agentId, sender) == s.agents[agentId].agent = sender

\* Mutant: the window is reset only strictly after lastReset + 1 days.
resetIfNeededStrict(s, agentId, t) ==
  IF t > s.agents[agentId].lastReset + OneDay
  THEN [s EXCEPT !.agents[agentId].spentToday = 0,
                 !.agents[agentId].lastReset = Uint64(t)]
  ELSE s

\* Mutant: the window is reset on every call.
resetAlways(s, agentId, t) ==
  [s EXCEPT !.agents[agentId].spentToday = 0,
            !.agents[agentId].lastReset = Uint64(t)]

\* _resetIfNeeded on the policy of agentId at block.timestamp t.
resetIfNeeded(s, agentId, t) ==
  IF t >= s.agents[agentId].lastReset + OneDay
  THEN [s EXCEPT !.agents[agentId].spentToday = 0,
                 !.agents[agentId].lastReset = Uint64(t)]
  ELSE s

\* Mutant: perTxLimit is not compared with dailyLimit.
validateLimitsNonZeroOnly(dailyLimit, perTxLimit) ==
  ~(dailyLimit = 0 \/ perTxLimit = 0)

\* _validateLimits: TRUE when it does not revert.
validateLimits(dailyLimit, perTxLimit) ==
  ~(dailyLimit = 0 \/ perTxLimit = 0) /\ ~(perTxLimit > dailyLimit)

\* A revert: the EVM discards every storage write made since the external call
\* began, so what is left is s0, the storage the call started from.
Revert(s0, e) == Result(s0, e)

\* Mutant: the latch is not set on entry.
enterGuardNoLatch(s) == s

\* Mutant: the latch is not cleared on exit.
exitGuardStuck(s) == s

\* The head of a guarded function, after its access modifiers: the storage with
\* the latch set.
enterGuard(s) == [s EXCEPT !.status = ENTERED]
\* The tail of nonReentrant.
exitGuard(s) == [s EXCEPT !.status = NOT_ENTERED]

\* ------------------------------------------------------- agent lifecycle
\* Mutant: the new policy's window is not stamped with the creation time.
createAgentUnstamped(s, sender, agentAddress, dailyLimit, perTxLimit, t) ==
  IF agentAddress = Null THEN [st |-> s, err |-> "InvalidAddress"]
  ELSE IF ~validateLimits(dailyLimit, perTxLimit) THEN [st |-> s, err |-> "InvalidLimits"]
  ELSE LET agentId == s.nextAgentId + 1 IN
       [st |-> [s EXCEPT !.nextAgentId = agentId,
                         !.agents[agentId] =
                           [owner |-> sender, agent |-> agentAddress, active |-> TRUE,
                            dailyLimit |-> dailyLimit, perTxLimit |-> perTxLimit,
                            spentToday |-> 0, lastReset |-> 0]],
        err |-> "ok"]

\* Every external function below takes the storage s the call starts from and
\* yields [st, err]: the storage the call leaves and "ok", or Revert(s, kind).
\* Mutant: the new record is written and the counter is not advanced.
createAgentNoCount(s, sender, agentAddress, dailyLimit, perTxLimit, t) ==
  IF agentAddress = Null THEN Revert(s, "InvalidAddress")
  ELSE IF ~validateLimits(dailyLimit, perTxLimit) THEN Revert(s, "InvalidLimits")
  ELSE LET agentId == s.nextAgentId + 1 IN
       Result([s EXCEPT !.agents[agentId] =
                          [owner |-> sender, agent |-> agentAddress, active |-> TRUE,
                           dailyLimit |-> dailyLimit, perTxLimit |-> perTxLimit,
                           spentToday |-> 0, lastReset |-> Uint64(t)]], "ok")

createAgent(s, sender, agentAddress, dailyLimit, perTxLimit, t) ==
  IF agentAddress = Null THEN Revert(s, "InvalidAddress")
  ELSE IF ~validateLimits(dailyLimit, perTxLimit) THEN Revert(s, "InvalidLimits")
  ELSE LET agentId == s.nextAgentId + 1 IN
       Result([s EXCEPT !.nextAgentId = agentId,
                        !.agents[agentId] =
                          [owner |-> sender, agent |-> agentAddress, active |-> TRUE,
                           dailyLimit |-> dailyLimit, perTxLimit |-> perTxLimit,
                           spentToday |-> 0, lastReset |-> Uint64(t)]], "ok")

\* Mutant: any caller may replace the delegate.
setAgentAddressByAnyone(s, sender, agentId, newAgent) ==
  IF ~agentExists(s, agentId) THEN Revert(s, "AgentNotFound")
  ELSE IF newAgent = Null THEN Revert(s, "InvalidAddress")
  ELSE Result([s EXCEPT !.agents[agentId].agent = newAgent], "ok")

setAgentAddress(s, sender, agentId, newAgent) ==
  IF ~agentExists(s, agentId) THEN Revert(s, "AgentNotFound")
  ELSE IF ~onlyAgentOwner(s, agentId, sender) THEN Revert(s, "NotAgentOwner")
  ELSE IF newAgent = Null THEN Revert(s, "InvalidAddress")
  ELSE Result([s EXCEPT !.agents[agentId].agent = newAgent], "ok")

\* ---------------------------------------------------- funding management
\* Mutant: the ledger is credited and no token is pulled from the sender.
depositNoPull(s, sender, agentId, amount, extOk) ==
  IF ~agentExists(s, agentId) THEN Revert(s, "AgentNotFound")
  ELSE IF ~onlyAgentOwner(s, agentId, sender) THEN Revert(s, "NotAgentOwner")
  ELSE IF s.status = ENTERED THEN Revert(s, "ReentrantCall")
  ELSE IF amount = 0 THEN Revert(s, "InvalidAmount")
  ELSE Result([s EXCEPT !.bal[agentId] = @ + amount], "ok")

\* Mutant: a deposit is refused while the policy is paused.
depositIfActive(s, sender, agentId, amount, extOk) ==
  IF ~agentExists(s, agentId) THEN Revert(s, "AgentNotFound")
  ELSE IF ~onlyAgentOwner(s, agentId, sender) THEN Revert(s, "NotAgentOwner")
  ELSE IF s.status = ENTERED THEN Revert(s, "ReentrantCall")
  ELSE LET s1 == enterGuard(s) IN
    IF amount = 0 THEN Revert(s, "InvalidAmount")
    ELSE IF ~s.agents[agentId].active THEN Revert(s, "PolicyInactive")
    ELSE LET x == tokTransferFrom(s1, Wallet, sender, Wallet, amount) IN
      IF x.err # "ok" \/ ~extOk THEN Revert(s, "ExternalTransferFailed")
      ELSE IF x.st.bal[agentId] + amount > MaxUint THEN Revert(s, "Panic")
      ELSE Result(exitGuard([x.st EXCEPT !.bal[agentId] = @ + amount]), "ok")

\* extOk is the boolean the token returns (a token may refuse a transfer).
deposit(s, sender, agentId, amount, extOk) ==
  IF ~agentExists(s, agentId) THEN Revert(s, "AgentNotFound")
  ELSE IF ~onlyAgentOwner(s, agentId, sender) THEN Revert(s, "NotAgentOwner")
  ELSE IF s.status = ENTERED THEN Revert(s, "ReentrantCall")
  ELSE LET s1 == enterGuard(s) IN
    IF amount = 0 THEN Revert(s, "InvalidAmount")
    ELSE LET x == tokTransferFrom(s1, Wallet, sender, Wallet, amount) IN
      IF x.err # "ok" \/ ~extOk THEN Revert(s, "ExternalTransferFailed")
      ELSE IF x.st.bal[agentId] + amount > MaxUint THEN Revert(s, "Panic")
      ELSE Result(exitGuard([x.st EXCEPT !.bal[agentId] = @ + amount]), "ok")

\* Mutant: the owner of the contract may withdraw from any agent.
withdrawByContractOwner(s, sender, agentId, amount, extOk) ==
  IF ~agentExists(s, agentId) THEN Revert(s, "AgentNotFound")
  ELSE IF ~onlyAgentOwner(s, agentId, sender) /\ sender # s.owner
       THEN Revert(s, "NotAgentOwner")
  ELSE IF s.status = ENTERED THEN Revert(s, "ReentrantCall")
  ELSE LET s1 == enterGuard(s) IN
    IF amount = 0 THEN Revert(s, "InvalidAmount")
    ELSE IF s1.bal[agentId] < amount THEN Revert(s, "InsufficientBalance")
    ELSE LET s2 == [s1 EXCEPT !.bal[agentId] = @ - amount]
             x == tokTransfer(s2, Wallet, sender, amount) IN
      IF x.err # "ok" \/ ~extOk THEN Revert(s, "ExternalTransferFailed")
      ELSE Result(exitGuard(x.st), "ok")

\* Mutant: the balance is debited without being compared with amount.
withdrawUnchecked(s, sender, agentId, amount, extOk) ==
  IF ~agentExists(s, agentId) THEN Revert(s, "AgentNotFound")
  ELSE IF ~onlyAgentOwner(s, agentId, sender) THEN Revert(s, "NotAgentOwner")
  ELSE IF s.status = ENTERED THEN Revert(s, "ReentrantCall")
  ELSE LET s1 == enterGuard(s) IN
    IF amount = 0 THEN Revert(s, "InvalidAmount")
    ELSE LET s2 == [s1 EXCEPT !.bal[agentId] = @ - amount]
             x == tokTransfer(s2, Wallet, sender, amount) IN
      IF x.err # "ok" \/ ~extOk THEN Revert(s, "ExternalTransferFailed")
      ELSE Result(exitGuard(x.st), "ok")

withdraw(s, sender, agentId, amount, extOk) ==
  IF ~agentExists(s, agentId) THEN Revert(s, "AgentNotFound")
  ELSE IF ~onlyAgentOwner(s, agentId, sender) THEN Revert(s, "NotAgentOwner")
  ELSE IF s.status = ENTERED THEN Revert(s, "ReentrantCall")
  ELSE LET s1 == enterGuard(s) IN
    IF amount = 0 THEN Revert(s, "InvalidAmount")
    ELSE IF s1.bal[agentId] < amount THEN Revert(s, "InsufficientBalance")
    ELSE LET s2 == [s1 EXCEPT !.bal[agentId] = @ - amount]
             x == tokTransfer(s2, Wallet, sender, amount) IN
      IF x.err # "ok" \/ ~extOk THEN Revert(s, "ExternalTransferFailed")
      ELSE Result(exitGuard(x.st), "ok")

\* Mutant: the drain is refused while the policy is paused.
emergencyWithdrawIfActive(s, sender, agentId, extOk) ==
  IF ~agentExists(s, agentId) THEN Revert(s, "AgentNotFound")
  ELSE IF ~onlyAgentOwner(s, agentId, sender) THEN Revert(s, "NotAgentOwner")
  ELSE IF s.status = ENTERED THEN Revert(s, "ReentrantCall")
  ELSE IF ~s.agents[agentId].active THEN Revert(s, "PolicyInactive")
  ELSE LET balance == s.bal[agentId]
           s2 == [s EXCEPT !.bal[agentId] = 0]
           x == tokTransfer(s2, Wallet, sender, balance) IN
    IF x.err # "ok" \/ ~extOk THEN Revert(s, "ExternalTransferFailed")
    ELSE Result(x.st, "ok")

emergencyWithdraw(s, sender, agentId, extOk) ==
  IF ~agentExists(s, agentId) THEN Revert(s, "AgentNotFound")
  ELSE IF ~onlyAgentOwner(s, agentId, sender) THEN Revert(s, "NotAgentOwner")
  ELSE IF s.status = ENTERED THEN Revert(s, "ReentrantCall")
  ELSE LET s1 == enterGuard(s)
           balance == s1.bal[agentId]
           s2 == [s1 EXCEPT !.bal[agentId] = 0]
           x == tokTransfer(s2, Wallet, sender, balance) IN
    IF x.err # "ok" \/ ~extOk THEN Revert(s, "ExternalTransferFailed")
    ELSE Result(exitGuard(x.st), "ok")

\* The events a deposit and a withdraw emit, given the storage st they leave:
\* Deposit(agentId, amount, newBalance) and Withdraw(agentId, amount, newBalance).
DepositEvent(st, agentId, amount) ==
  [name |-> "Deposit", agentId |-> agentId, amount |-> amount,
   newBalance |-> st.bal[agentId]]
WithdrawEvent(st, agentId, amount) ==
  [name |-> "Withdraw", agentId |-> agentId, amount |-> amount,
   newBalance |-> st.bal[agentId]]

\* ------------------------------------------------------ policy management
setPolicyActive(s, sender, agentId, active) ==
  IF ~agentExists(s, agentId) THEN Revert(s, "AgentNotFound")
  ELSE IF ~onlyAgentOwner(s, agentId, sender) THEN Revert(s, "NotAgentOwner")
  ELSE Result([s EXCEPT !.agents[agentId].active = active], "ok")

\* Mutant: the new limits are stored and spentToday is left above newDailyLimit.
updateLimitsNoClamp(s, sender, agentId, newDailyLimit, newPerTxLimit, t) ==
  IF ~agentExists(s, agentId) THEN Revert(s, "AgentNotFound")
  ELSE IF ~onlyAgentOwner(s, agentId, sender) THEN Revert(s, "NotAgentOwner")
  ELSE IF ~validateLimits(newDailyLimit, newPerTxLimit) THEN Revert(s, "InvalidLimits")
  ELSE LET s1 == resetIfNeeded(s, agentId, t) IN
    Result([s1 EXCEPT !.agents[agentId].dailyLimit = newDailyLimit,
                      !.agents[agentId].perTxLimit = newPerTxLimit], "ok")

\* Mutant: the limits are stored and clamped without applying a due reset.
updateLimitsNoReset(s, sender, agentId, newDailyLimit, newPerTxLimit, t) ==
  IF ~agentExists(s, agentId) THEN Revert(s, "AgentNotFound")
  ELSE IF ~onlyAgentOwner(s, agentId, sender) THEN Revert(s, "NotAgentOwner")
  ELSE IF ~validateLimits(newDailyLimit, newPerTxLimit) THEN Revert(s, "InvalidLimits")
  ELSE LET s2 == [s EXCEPT !.agents[agentId].dailyLimit = newDailyLimit,
                           !.agents[agentId].perTxLimit = newPerTxLimit] IN
    IF s2.agents[agentId].spentToday > newDailyLimit
    THEN Result([s2 EXCEPT !.agents[agentId].spentToday = newDailyLimit], "ok")
    ELSE Result(s2, "ok")

updateLimits(s, sender, agentId, newDailyLimit, newPerTxLimit, t) ==
  IF ~agentExists(s, agentId) THEN Revert(s, "AgentNotFound")
  ELSE IF ~onlyAgentOwner(s, agentId, sender) THEN Revert(s, "NotAgentOwner")
  ELSE IF ~validateLimits(newDailyLimit, newPerTxLimit) THEN Revert(s, "InvalidLimits")
  ELSE LET s1 == resetIfNeeded(s, agentId, t)
           s2 == [s1 EXCEPT !.agents[agentId].dailyLimit = newDailyLimit,
                            !.agents[agentId].perTxLimit = newPerTxLimit] IN
    IF s2.agents[agentId].spentToday > newDailyLimit
    THEN Result([s2 EXCEPT !.agents[agentId].spentToday = newDailyLimit], "ok")
    ELSE Result(s2, "ok")

\* Mutant: the merchant's entry is written for every agent.
setMerchantWhitelistShared(s, sender, agentId, merchant, allowed) ==
  IF ~agentExists(s, agentId) THEN Revert(s, "AgentNotFound")
  ELSE IF ~onlyAgentOwner(s, agentId, sender) THEN Revert(s, "NotAgentOwner")
  ELSE IF merchant = Null THEN Revert(s, "InvalidAddress")
  ELSE Result([s EXCEPT !.wl = [i \in DOMAIN @ |-> [@[i] EXCEPT ![merchant] = allowed]]], "ok")

\* Mutant: the entry is flipped, whatever value is asked for.
setMerchantWhitelistFlip(s, sender, agentId, merchant, allowed) ==
  IF ~agentExists(s, agentId) THEN Revert(s, "AgentNotFound")
  ELSE IF ~onlyAgentOwner(s, agentId, sender) THEN Revert(s, "NotAgentOwner")
  ELSE IF merchant = Null THEN Revert(s, "InvalidAddress")
  ELSE Result([s EXCEPT !.wl[agentId][merchant] = ~@], "ok")

\* Mutant: any caller may change an agent's whitelist.
setMerchantWhitelistByAnyone(s, sender, agentId, merchant, allowed) ==
  IF ~agentExists(s, agentId) THEN Revert(s, "AgentNotFound")
  ELSE IF merchant = Null THEN Revert(s, "InvalidAddress")
  ELSE Result([s EXCEPT !.wl[agentId][merchant] = allowed], "ok")

setMerchantWhitelist(s, sender, agentId, merchant, allowed) ==
  IF ~agentExists(s, agentId) THEN Revert(s, "AgentNotFound")
  ELSE IF ~onlyAgentOwner(s, agentId, sender) THEN Revert(s, "NotAgentOwner")
  ELSE IF merchant = Null THEN Revert(s, "InvalidAddress")
  ELSE Result([s EXCEPT !.wl[agentId][merchant] = allowed], "ok")

\* Mutant: the merchant is authorized and called before the balance is debited
\* and spentToday is increased.
processPaymentCallsFirst(s, agentId, merchant, amount, hasData, t, extOk) ==
  LET s1 == resetIfNeeded(s, agentId, t)
      policy == s1.agents[agentId] IN
  IF ~policy.active THEN Result(s1, "PolicyInactive")
  ELSE IF ~s1.wl[agentId][merchant] THEN Result(s1, "MerchantNotAllowed")
  ELSE IF amount > policy.perTxLimit THEN Result(s1, "PerTxLimitExceeded")
  ELSE IF policy.spentToday + amount > MaxUint THEN Result(s1, "Panic")
  ELSE IF policy.spentToday + amount > policy.dailyLimit
       THEN Result(s1, "DailyLimitExceeded")
  ELSE IF s1.bal[agentId] < amount THEN Result(s1, "InsufficientBalance")
  ELSE LET s2 == [s1 EXCEPT !.bal[agentId] = @ - amount,
                            !.agents[agentId].spentToday = @ + amount] IN
    IF ~hasData
    THEN LET x == tokTransfer(s2, Wallet, merchant, amount) IN
         IF x.err # "ok" \/ ~extOk THEN Result(x.st, "ExternalTransferFailed")
         ELSE Result(x.st, "ok")
    ELSE LET s3 == IF s1.alw[<<Wallet, merchant>>] # 0
                   THEN tokApprove(s1, Wallet, merchant, 0) ELSE s1 IN
         IF ~extOk THEN Result(s3, "ExternalTransferFailed")
         ELSE Result(tokApprove(s3, Wallet, merchant, amount), "calling")

\* Mutant: a payment is debited and not counted in spentToday.
processPaymentNoAccrual(s, agentId, merchant, amount, hasData, t, extOk) ==
  LET s1 == resetIfNeeded(s, agentId, t)
      policy == s1.agents[agentId] IN
  IF ~policy.active THEN Result(s1, "PolicyInactive")
  ELSE IF ~s1.wl[agentId][merchant] THEN Result(s1, "MerchantNotAllowed")
  ELSE IF amount > policy.perTxLimit THEN Result(s1, "PerTxLimitExceeded")
  ELSE IF policy.spentToday + amount > MaxUint THEN Result(s1, "Panic")
  ELSE IF policy.spentToday + amount > policy.dailyLimit
       THEN Result(s1, "DailyLimitExceeded")
  ELSE IF s1.bal[agentId] < amount THEN Result(s1, "InsufficientBalance")
  ELSE LET s2 == [s1 EXCEPT !.bal[agentId] = @ - amount] IN
    IF ~hasData
    THEN LET x == tokTransfer(s2, Wallet, merchant, amount) IN
         IF x.err # "ok" \/ ~extOk THEN Result(x.st, "ExternalTransferFailed")
         ELSE Result(x.st, "ok")
    ELSE LET s3 == IF s2.alw[<<Wallet, merchant>>] # 0
                   THEN tokApprove(s2, Wallet, merchant, 0) ELSE s2 IN
         IF ~extOk THEN Result(s3, "ExternalTransferFailed")
         ELSE Result(tokApprove(s3, Wallet, merchant, amount), "calling")

\* --------------------------------------------------------------- spending
\* Mutant: the whitelist is not consulted.
processPaymentAnyMerchant(s, agentId, merchant, amount, hasData, t, extOk) ==
  LET s1 == resetIfNeeded(s, agentId, t)
      policy == s1.agents[agentId] IN
  IF ~policy.active THEN Result(s1, "PolicyInactive")
  ELSE IF amount > policy.perTxLimit THEN Result(s1, "PerTxLimitExceeded")
  ELSE IF policy.spentToday + amount > MaxUint THEN Result(s1, "Panic")
  ELSE IF policy.spentToday + amount > policy.dailyLimit
       THEN Result(s1, "DailyLimitExceeded")
  ELSE IF s1.bal[agentId] < amount THEN Result(s1, "InsufficientBalance")
  ELSE LET s2 == [s1 EXCEPT !.bal[agentId] = @ - amount,
                            !.agents[agentId].spentToday = @ + amount] IN
    IF ~hasData
    THEN LET x == tokTransfer(s2, Wallet, merchant, amount) IN
         IF x.err # "ok" \/ ~extOk THEN Result(x.st, "ExternalTransferFailed")
         ELSE Result(x.st, "ok")
    ELSE LET s3 == IF s2.alw[<<Wallet, merchant>>] # 0
                   THEN tokApprove(s2, Wallet, merchant, 0) ELSE s2 IN
         IF ~extOk THEN Result(s3, "ExternalTransferFailed")
         ELSE Result(tokApprove(s3, Wallet, merchant, amount), "calling")

\* Mutant: the amount is compared with dailyLimit in place of perTxLimit.
processPaymentDailyOnly(s, agentId, merchant, amount, hasData, t, extOk) ==
  LET s1 == resetIfNeeded(s, agentId, t)
      policy == s1.agents[agentId] IN
  IF ~policy.active THEN Result(s1, "PolicyInactive")
  ELSE IF ~s1.wl[agentId][merchant] THEN Result(s1, "MerchantNotAllowed")
  ELSE IF amount > policy.dailyLimit THEN Result(s1, "PerTxLimitExceeded")
  ELSE IF policy.spentToday + amount > MaxUint THEN Result(s1, "Panic")
  ELSE IF policy.spentToday + amount > policy.dailyLimit
       THEN Result(s1, "DailyLimitExceeded")
  ELSE IF s1.bal[agentId] < amount THEN Result(s1, "InsufficientBalance")
  ELSE LET s2 == [s1 EXCEPT !.bal[agentId] = @ - amount,
                            !.agents[agentId].spentToday = @ + amount] IN
    IF ~hasData
    THEN LET x == tokTransfer(s2, Wallet, merchant, amount) IN
         IF x.err # "ok" \/ ~extOk THEN Result(x.st, "ExternalTransferFailed")
         ELSE Result(x.st, "ok")
    ELSE LET s3 == IF s2.alw[<<Wallet, merchant>>] # 0
                   THEN tokApprove(s2, Wallet, merchant, 0) ELSE s2 IN
         IF ~extOk THEN Result(s3, "ExternalTransferFailed")
         ELSE Result(tokApprove(s3, Wallet, merchant, amount), "calling")

\* Mutant: policy.active is not consulted.
processPaymentWhilePaused(s, agentId, merchant, amount, hasData, t, extOk) ==
  LET s1 == resetIfNeeded(s, agentId, t)
      policy == s1.agents[agentId] IN
  IF ~s1.wl[agentId][merchant] THEN Result(s1, "MerchantNotAllowed")
  ELSE IF amount > policy.perTxLimit THEN Result(s1, "PerTxLimitExceeded")
  ELSE IF policy.spentToday + amount > MaxUint THEN Result(s1, "Panic")
  ELSE IF policy.spentToday + amount > policy.dailyLimit
       THEN Result(s1, "DailyLimitExceeded")
  ELSE IF s1.bal[agentId] < amount THEN Result(s1, "InsufficientBalance")
  ELSE LET s2 == [s1 EXCEPT !.bal[agentId] = @ - amount,
                            !.agents[agentId].spentToday = @ + amount] IN
    IF ~hasData
    THEN LET x == tokTransfer(s2, Wallet, merchant, amount) IN
         IF x.err # "ok" \/ ~extOk THEN Result(x.st, "ExternalTransferFailed")
         ELSE Result(x.st, "ok")
    ELSE LET s3 == IF s2.alw[<<Wallet, merchant>>] # 0
                   THEN tokApprove(s2, Wallet, merchant, 0) ELSE s2 IN
         IF ~extOk THEN Result(s3, "ExternalTransferFailed")
         ELSE Result(tokApprove(s3, Wallet, merchant, amount), "calling")

\* _processPayment, an internal function: [st, err] with st the storage where it
\* stopped.  err is "ok" when it returned after a direct transfer, "calling"
\* when it reached `merchant.call(data)` (the merchant's code runs next), and
\* otherwise the kind of the revert, which its caller propagates.
\* Mutant: the payment goes out and the ledger balance is not debited.
processPaymentNoDebit(s, agentId, merchant, amount, hasData, t, extOk) ==
  LET s1 == resetIfNeeded(s, agentId, t)
      policy == s1.agents[agentId] IN
  IF ~policy.active THEN Result(s1, "PolicyInactive")
  ELSE IF ~s1.wl[agentId][merchant] THEN Result(s1, "MerchantNotAllowed")
  ELSE IF amount > policy.perTxLimit THEN Result(s1, "PerTxLimitExceeded")
  ELSE IF policy.spentToday + amount > MaxUint THEN Result(s1, "Panic")
  ELSE IF policy.spentToday + amount > policy.dailyLimit
       THEN Result(s1, "DailyLimitExceeded")
  ELSE IF s1.bal[agentId] < amount THEN Result(s1, "InsufficientBalance")
  ELSE LET s2 == [s1 EXCEPT !.agents[agentId].spentToday = @ + amount] IN
    IF ~hasData
    THEN LET x == tokTransfer(s2, Wallet, merchant, amount) IN
         IF x.err # "ok" \/ ~extOk THEN Result(x.st, "ExternalTransferFailed")
         ELSE Result(x.st, "ok")
    ELSE LET s3 == IF s2.alw[<<Wallet, merchant>>] # 0
                   THEN tokApprove(s2, Wallet, merchant, 0) ELSE s2 IN
         IF ~extOk THEN Result(s3, "ExternalTransferFailed")
         ELSE Result(tokApprove(s3, Wallet, merchant, amount), "calling")

processPayment(s, agentId, merchant, amount, hasData, t, extOk) ==
  LET s1 == resetIfNeeded(s, agentId, t)
      policy == s1.agents[agentId] IN
  IF ~policy.active THEN Result(s1, "PolicyInactive")
  ELSE IF ~s1.wl[agentId][merchant] THEN Result(s1, "MerchantNotAllowed")
  ELSE IF amount > policy.perTxLimit THEN Result(s1, "PerTxLimitExceeded")
  ELSE IF policy.spentToday + amount > MaxUint THEN Result(s1, "Panic")
  ELSE IF policy.spentToday + amount > policy.dailyLimit
       THEN Result(s1, "DailyLimitExceeded")
  ELSE IF s1.bal[agentId] < amount THEN Result(s1, "InsufficientBalance")
  ELSE LET s2 == [s1 EXCEPT !.bal[agentId] = @ - amount,
                            !.agents[agentId].spentToday = @ + amount] IN
    IF ~hasData
    THEN LET x == tokTransfer(s2, Wallet, merchant, amount) IN
         IF x.err # "ok" \/ ~extOk THEN Result(x.st, "ExternalTransferFailed")
         ELSE Result(x.st, "ok")
    ELSE LET s3 == IF s2.alw[<<Wallet, merchant>>] # 0
                   THEN tokApprove(s2, Wallet, merchant, 0) ELSE s2 IN
         IF ~extOk THEN Result(s3, "ExternalTransferFailed")
         ELSE Result(tokApprove(s3, Wallet, merchant, amount), "calling")

pay(s, sender, agentId, merchant, amount, hasData, t, extOk) ==
  IF ~agentExists(s, agentId) THEN Revert(s, "AgentNotFound")
  ELSE IF ~onlyAgent(s, agentId, sender) THEN Revert(s, "NotAgent")
  ELSE IF s.status = ENTERED THEN Revert(s, "ReentrantCall")
  ELSE LET s1 == enterGuard(s) IN
    IF merchant = Null THEN Revert(s, "InvalidAddress")
    ELSE IF amount = 0 THEN Revert(s, "InvalidAmount")
    ELSE LET r == processPayment(s1, agentId, merchant, amount, hasData, t, extOk) IN
      IF r.err = "ok" THEN Result(exitGuard(r.st), "ok")
      ELSE IF r.err = "calling" THEN r
      ELSE Revert(s, r.err)

\* ---------------------------------------------------------- subscriptions
\* Mutant: a subscription is created for a merchant that is not whitelisted.
createSubscriptionAnyMerchant(s, sender, agentId, merchant, amountPerPeriod, periodSeconds, firstExecutionAt, t) ==
  IF ~agentExists(s, agentId) THEN Revert(s, "AgentNotFound")
  ELSE IF ~onlyAgentOwner(s, agentId, sender) THEN Revert(s, "NotAgentOwner")
  ELSE IF merchant = Null THEN Revert(s, "InvalidAddress")
  ELSE IF amountPerPeriod = 0 THEN Revert(s, "InvalidAmount")
  ELSE IF periodSeconds < MinPeriod THEN Revert(s, "InvalidAmount")
  ELSE LET subscriptionId == s.nextSubId[agentId] + 1 IN
    Result([s EXCEPT !.nextSubId[agentId] = subscriptionId,
                     !.subs[agentId][subscriptionId] =
                       [merchant |-> merchant, amountPerPeriod |-> amountPerPeriod,
                        periodSeconds |-> periodSeconds,
                        nextExecutionAt |-> IF firstExecutionAt = 0 THEN Uint64(t)
                                            ELSE firstExecutionAt,
                        active |-> TRUE]], "ok")

createSubscription(s, sender, agentId, merchant, amountPerPeriod, periodSeconds, firstExecutionAt, t) ==
  IF ~agentExists(s, agentId) THEN Revert(s, "AgentNotFound")
  ELSE IF ~onlyAgentOwner(s, agentId, sender) THEN Revert(s, "NotAgentOwner")
  ELSE IF merchant = Null THEN Revert(s, "InvalidAddress")
  ELSE IF ~s.wl[agentId][merchant] THEN Revert(s, "MerchantNotAllowed")
  ELSE IF amountPerPeriod = 0 THEN Revert(s, "InvalidAmount")
  ELSE IF periodSeconds < MinPeriod THEN Revert(s, "InvalidAmount")
  ELSE LET subscriptionId == s.nextSubId[agentId] + 1 IN
    Result([s EXCEPT !.nextSubId[agentId] = subscriptionId,
                     !.subs[agentId][subscriptionId] =
                       [merchant |-> merchant, amountPerPeriod |-> amountPerPeriod,
                        periodSeconds |-> periodSeconds,
                        nextExecutionAt |-> IF firstExecutionAt = 0 THEN Uint64(t)
                                            ELSE firstExecutionAt,
                        active |-> TRUE]], "ok")

setSubscriptionStatus(s, sender, agentId, subscriptionId, active) ==
  IF ~agentExists(s, agentId) THEN Revert(s, "AgentNotFound")
  ELSE IF ~onlyAgentOwner(s, agentId, sender) THEN Revert(s, "NotAgentOwner")
  ELSE IF s.subs[agentId][subscriptionId].merchant = Null
       THEN Revert(s, "SubscriptionNotFound")
  ELSE Result([s EXCEPT !.subs[agentId][subscriptionId].active = active], "ok")

\* Mutant: a failed payment leaves the storage as it was when it failed.
executeSubscriptionNoRollback(s, agentId, subscriptionId, hasData, t, extOk) ==
  IF ~agentExists(s, agentId) THEN Revert(s, "AgentNotFound")
  ELSE IF s.status = ENTERED THEN Revert(s, "ReentrantCall")
  ELSE LET s1 == enterGuard(s)
           sub == s1.subs[agentId][subscriptionId] IN
    IF ~sub.active THEN Revert(s, "SubscriptionInactive")
    ELSE IF sub.merchant = Null THEN Revert(s, "SubscriptionNotFound")
    ELSE IF ~(t >= sub.nextExecutionAt) THEN Revert(s, "TooEarly")
    ELSE LET s2 == [s1 EXCEPT !.subs[agentId][subscriptionId].nextExecutionAt =
                                 Uint64(t + sub.periodSeconds)]
             r == processPayment(s2, agentId, sub.merchant, sub.amountPerPeriod,
                                 hasData, t, extOk) IN
      IF r.err = "ok" THEN Result(exitGuard(r.st), "ok")
      ELSE IF r.err = "calling" THEN r
      ELSE r

\* Mutant: the next execution is scheduled from the previous due time.
executeSubscriptionFromDue(s, agentId, subscriptionId, hasData, t, extOk) ==
  IF ~agentExists(s, agentId) THEN Revert(s, "AgentNotFound")
  ELSE IF s.status = ENTERED THEN Revert(s, "ReentrantCall")
  ELSE LET s1 == enterGuard(s)
           sub == s1.subs[agentId][subscriptionId] IN
    IF ~sub.active THEN Revert(s, "SubscriptionInactive")
    ELSE IF sub.merchant = Null THEN Revert(s, "SubscriptionNotFound")
    ELSE IF ~(t >= sub.nextExecutionAt) THEN Revert(s, "TooEarly")
    ELSE LET s2 == [s1 EXCEPT !.subs[agentId][subscriptionId].nextExecutionAt =
                                 Uint64(sub.nextExecutionAt + sub.periodSeconds)]
             r == processPayment(s2, agentId, sub.merchant, sub.amountPerPeriod,
                                 hasData, t, extOk) IN
      IF r.err = "ok" THEN Result(exitGuard(r.st), "ok")
      ELSE IF r.err = "calling" THEN r
      ELSE Revert(s, r.err)

\* Mutant: the merchant's whitelisting at creation stands for the execution.
executeSubscriptionListedAtCreation(s, agentId, subscriptionId, hasData, t, extOk) ==
  IF ~agentExists(s, agentId) THEN Revert(s, "AgentNotFound")
  ELSE IF s.status = ENTERED THEN Revert(s, "ReentrantCall")
  ELSE LET s1 == enterGuard(s)
           sub == s1.subs[agentId][subscriptionId] IN
    IF ~sub.active THEN Revert(s, "SubscriptionInactive")
    ELSE IF sub.merchant = Null THEN Revert(s, "SubscriptionNotFound")
    ELSE IF ~(t >= sub.nextExecutionAt) THEN Revert(s, "TooEarly")
    ELSE LET s2 == [s1 EXCEPT !.subs[agentId][subscriptionId].nextExecutionAt =
                                 Uint64(t + sub.periodSeconds),
                              !.wl[agentId][sub.merchant] = TRUE]
             r == processPayment(s2, agentId, sub.merchant, sub.amountPerPeriod,
                                 hasData, t, extOk) IN
      IF r.err = "ok" THEN Result(exitGuard(r.st), "ok")
      ELSE IF r.err = "calling" THEN r
      ELSE Revert(s, r.err)

\* The function reads no msg.sender: whoever calls it gets the same result.
executeSubscription(s, agentId, subscriptionId, hasData, t, extOk) ==
  IF ~agentExists(s, agentId) THEN Revert(s, "AgentNotFound")
  ELSE IF s.status = ENTERED THEN Revert(s, "ReentrantCall")
  ELSE LET s1 == enterGuard(s)
           sub == s1.subs[agentId][subscriptionId] IN
    IF ~sub.active THEN Revert(s, "SubscriptionInactive")
    ELSE IF sub.merchant = Null THEN Revert(s, "SubscriptionNotFound")
    ELSE IF ~(t >= sub.nextExecutionAt) THEN Revert(s, "TooEarly")
    ELSE LET s2 == [s1 EXCEPT !.subs[agentId][subscriptionId].nextExecutionAt =
                                 Uint64(t + sub.periodSeconds)]
             r == processPayment(s2, agentId, sub.merchant, sub.amountPerPeriod,
                                 hasData, t, extOk) IN
      IF r.err = "ok" THEN Result(exitGuard(r.st), "ok")
      ELSE IF r.err = "calling" THEN r
      ELSE Revert(s, r.err)

\* pay and executeSubscription as they run when the modifier nonReentrant lets
\* a nested entry through: the same checks and the same _processPayment, the
\* latch neither tested nor touched. Nested payments carry no payload.
payNested(s, sender, agentId, merchant, amount, t, extOk) ==
  IF ~agentExists(s, agentId) THEN Revert(s, "AgentNotFound")
  ELSE IF ~onlyAgent(s, agentId, sender) THEN Revert(s, "NotAgent")
  ELSE IF merchant = Null THEN Revert(s, "InvalidAddress")
  ELSE IF amount = 0 THEN Revert(s, "InvalidAmount")
  ELSE LET r == processPayment(s, agentId, merchant, amount, FALSE, t, extOk) IN
    IF r.err = "ok" THEN r ELSE Revert(s, r.err)

executeSubscriptionNested(s, agentId, subscriptionId, t, extOk) ==
  IF ~agentExists(s, agentId) THEN Revert(s, "AgentNotFound")
  ELSE LET sub == s.subs[agentId][subscriptionId] IN
    IF ~sub.active THEN Revert(s, "SubscriptionInactive")
    ELSE IF sub.merchant = Null THEN Revert(s, "SubscriptionNotFound")
    ELSE IF ~(t >= sub.nextExecutionAt) THEN Revert(s, "TooEarly")
    ELSE LET s2 == [s EXCEPT !.subs[agentId][subscriptionId].nextExecutionAt =
                                Uint64(t + sub.periodSeconds)]
             r == processPayment(s2, agentId, sub.merchant, sub.amountPerPeriod,
                                 FALSE, t, extOk) IN
      IF r.err = "ok" THEN r ELSE Revert(s, r.err)

\* Mutant: only the agent's delegate may execute a subscription.
executeSubscriptionAgentOnly(s, sender, agentId, subscriptionId, hasData, t, extOk) ==
  IF ~agentExists(s, agentId) THEN Revert(s, "AgentNotFound")
  ELSE IF ~onlyAgent(s, agentId, sender) THEN Revert(s, "NotAgent")
  ELSE executeSubscription(s, agentId, subscriptionId, hasData, t, extOk)

\* executeSubscription as called by sender: the function has the modifiers
\* agentExists and nonReentrant only, and its body never reads msg.sender.
executeSubscriptionFrom(s, sender, agentId, subscriptionId, hasData, t, extOk) ==
  executeSubscription(s, agentId, subscriptionId, hasData, t, extOk)

\* ------------------------------------------------------------ view helpers
\* spentToday(agentId), the window-adjusted read accessor, at block.timestamp t.
\* Mutant: the accessor returns the stored counter, due reset or not.
spentTodayStored(s, agentId, t) == s.agents[agentId].spentToday

spentTodayView(s, agentId, t) ==
  IF t >= s.agents[agentId].lastReset + OneDay THEN 0
  ELSE s.agents[agentId].spentToday

isMerchantWhitelisted(s, agentId, merchant) == s.wl[agentId][merchant]

\* --------------------------------------------------------- the relay server
\* The relay signs as the owner account of its configuration and generates a
\* key (an account) for every agent it registers.
RelayOwner == "alice"
RelayKey == "bot"
Response(route, code, body) ==
  [route |-> route, status |-> code, body |-> body, wellFormed |-> TRUE,
   held |-> FALSE, payable |-> FALSE]

\* POST /register-agent with a well-formed body: createAgent is simulated and
\* sent as the owner; a revert is thrown to the error middleware (500), and on
\* success the key is stored under the id of the AgentCreated event.
registerAgent(s, store, dailyLimit, perTxLimit, t) ==
  LET r == createAgent(s, RelayOwner, RelayKey, dailyLimit, perTxLimit, t) IN
  IF r.err # "ok"
  THEN [st |-> s, store |-> store,
        resp |-> Response("registerAgent", 500, "InternalServerError")]
  ELSE [st |-> r.st, store |-> [store EXCEPT ![r.st.nextAgentId] = RelayKey],
        resp |-> Response("registerAgent", 200, "registered")]

\* POST /register-agent/complete with a well-formed body: the key sent by the
\* client is stored under the agentId sent by the client.
registerComplete(s, store, agentId, account) ==
  [st |-> s, store |-> [store EXCEPT ![agentId] = account],
   resp |-> Response("registerComplete", 200, "registered")]

\* The handler of POST /agent/pay reads the identifier agentConfig, which
\* nothing in server.ts declares: evaluating it throws a ReferenceError.
agentConfigDeclared == FALSE

\* POST /agent/pay. A body the schema refuses is a ZodError (400); an agentId
\* with no record is 404; then `agentConfig` is evaluated; past it the stored
\* account is compared with the agent on the contract (400 on mismatch), pay
\* is simulated (a revert is thrown: 500) and sent, and the answer carries
\* the transaction hash and the receipt status.
agentPay(s, store, wellFormed, agentId, merchant, amount, hasData, t) ==
  LET answer(st, code, body) ==
        [st |-> st, store |-> store,
         resp |-> [route |-> "agentPay", status |-> code, body |-> body,
                   wellFormed |-> wellFormed,
                   held |-> wellFormed /\ store[agentId] # Null,
                   payable |-> /\ wellFormed
                               /\ store[agentId] # Null
                               /\ store[agentId] = s.agents[agentId].agent
                               /\ pay(s, store[agentId], agentId, merchant, amount,
                                      hasData, t, TRUE).err = "ok"]] IN
  IF ~wellFormed THEN answer(s, 400, "ValidationError")
  ELSE IF store[agentId] = Null THEN answer(s, 404, "Unknown agentId")
  ELSE IF ~agentConfigDeclared THEN answer(s, 500, "InternalServerError")
  ELSE IF store[agentId] # s.agents[agentId].agent
       THEN answer(s, 400, "Agent address mismatch")
  ELSE LET r == pay(s, store[agentId], agentId, merchant, amount, hasData, t, TRUE) IN
       IF r.err = "ok" THEN answer(r.st, 200, "transactionHash")
       ELSE answer(s, 500, "InternalServerError")

\* ------------------------------------------------------------------ actions
NoCb == [active |-> FALSE, op |-> "none", merchant |-> Null, agentId |-> 0,
         amount |-> 0, steps |-> 0]
NoSnap == InitStorage

\* The history of debits: log[i][t] is the total that agent i's successful
\* payments made at time t took from its balance, peak[i] is the largest
\* dailyLimit agent i has had since its current daily window started, and
\* held is peak as it was when the payment in progress was called. It is kept
\* only when on.
NoDebits ==
  [on |-> FALSE, log |-> [i \in AgentIds |-> [t \in 0..MaxTime |-> 0]],
   peak |-> [i \in AgentIds |-> 0], held |-> [i \in AgentIds |-> 0]]
\* peak once a call has left the storage st: the window of an agent whose
\* lastReset moved has just started.
Peaked(st) ==
  [i \in AgentIds |->
     IF st.agents[i].lastReset # agents[i].lastReset THEN st.agents[i].dailyLimit
     ELSE IF st.agents[i].dailyLimit > debits.peak[i] THEN st.agents[i].dailyLimit
     ELSE debits.peak[i]]
Logged(i, amount) ==
  IF debits.on /\ amount > 0 THEN [debits EXCEPT !.log[i][now] = @ + amount]
  ELSE debits

\* The relay server as started: agentStore is an empty Map (store[i] is the
\* account whose key is held for agent id i, Null when none) and no request
\* has been answered.
NoResponse == [route |-> "none", status |-> 0, body |-> "none", wellFormed |-> FALSE,
               held |-> FALSE, payable |-> FALSE]
NoRelay == [store |-> [i \in AgentIds |-> Null], resp |-> NoResponse]

\* The state after construction, the history apart.
Deployed ==
  /\ relay = NoRelay
  /\ now = 1
  /\ nextAgentId = InitStorage.nextAgentId
  /\ agents = InitStorage.agents
  /\ merchantWhitelist = InitStorage.wl
  /\ balances = InitStorage.bal
  /\ subscriptions = InitStorage.subs
  /\ nextSubscriptionId = InitStorage.nextSubId
  /\ status = InitStorage.status
  /\ tokBalances = InitStorage.tok
  /\ tokAllowances = InitStorage.alw
  /\ _owner = InitStorage.owner
  /\ cb = NoCb
  /\ snap = NoSnap
  /\ last = [op |-> "call", err |-> "ok"]

Init == Deployed /\ debits = NoDebits

\* The storage becomes s.
Store(s) ==
  /\ nextAgentId' = s.nextAgentId
  /\ agents' = s.agents
  /\ merchantWhitelist' = s.wl
  /\ balances' = s.bal
  /\ subscriptions' = s.subs
  /\ nextSubscriptionId' = s.nextSubId
  /\ status' = s.status
  /\ tokBalances' = s.tok
  /\ tokAllowances' = s.alw
  /\ _owner' = s.owner

\* A reverted call leaves the storage as it was, so whatever can follow it can
\* follow the state it was made in: a behaviour shows a reverted call as its
\* last step, with the call and the error kind in `last`, and goes no further.
Live == last.err \in {"ok", "calling"}

\* A call may be made by a transaction of its own, or by the merchant's code
\* while a callback is in progress.
CanCall == Live /\ (~cb.active \/ cb.steps < MaxCbSteps)

\* What `last` keeps of a call: its error kind, and its name when it reverted
\* or was a payment (any other call that returned is "call").
Payments == {"pay", "executeSubscription"}
Outcome(op, e) == [op |-> IF e = "ok" /\ op \notin Payments THEN "call" ELSE op,
                   err |-> e]

\* A call that ran to its return or its revert, with result r.
Do(op, r) ==
  /\ CanCall
  /\ Store(r.st)
  /\ last' = Outcome(op, r.err)
  /\ cb' = IF cb.active THEN [cb EXCEPT !.steps = @ + 1] ELSE cb
  /\ debits' = IF ~debits.on THEN debits
               ELSE IF op \in Payments /\ r.err = "ok"
               THEN [debits EXCEPT !.peak = Peaked(r.st), !.log = [i \in AgentIds |->
                       [@[i] EXCEPT ![now] = @ + (balances[i] - r.st.bal[i])]]]
               ELSE [debits EXCEPT !.peak = Peaked(r.st)]
  /\ UNCHANGED <<now, snap, relay>>

\* A payment that reached the merchant call: the merchant's code runs next.
EnterCallback(op, r, agentId, merchant, amount) ==
  /\ CanCall
  /\ Store(r.st)
  /\ cb' = [active |-> TRUE, op |-> op, merchant |-> merchant, agentId |-> agentId,
            amount |-> amount, steps |-> 0]
  /\ snap' = S
  /\ last' = Outcome(op, "calling")
  /\ debits' = IF debits.on
               THEN [debits EXCEPT !.peak = Peaked(r.st), !.held = debits.peak]
               ELSE debits
  /\ UNCHANGED <<now, relay>>

\* block.timestamp advances between transactions.
Tick ==
  /\ Live
  /\ ~cb.active
  /\ now < MaxTime
  /\ now' = now + 1
  /\ last' = Outcome("tick", "ok")
  /\ UNCHANGED <<nextAgentId, agents, merchantWhitelist, balances, subscriptions,
                 nextSubscriptionId, status, tokBalances, tokAllowances, cb, snap,
                 debits, relay, _owner>>

CreateAgent(sender, agentAddress, dailyLimit, perTxLimit) ==
  /\ CanCall
  /\ nextAgentId < MaxAgents
  /\ Do("createAgent", createAgent(S, sender, agentAddress, dailyLimit, perTxLimit, now))

TransferOwnership(sender, newOwner) ==
  Do("transferOwnership", transferOwnership(S, sender, newOwner))

SetAgentAddress(sender, agentId, newAgent) ==
  Do("setAgentAddress", setAgentAddress(S, sender, agentId, newAgent))

Deposit(sender, agentId, amount, extOk) ==
  Do("deposit", deposit(S, sender, agentId, amount, extOk))

Withdraw(sender, agentId, amount, extOk) ==
  Do("withdraw", withdraw(S, sender, agentId, amount, extOk))

EmergencyWithdraw(sender, agentId, extOk) ==
  Do("emergencyWithdraw", emergencyWithdraw(S, sender, agentId, extOk))

SetPolicyActive(sender, agentId, active) ==
  Do("setPolicyActive", setPolicyActive(S, sender, agentId, active))

UpdateLimits(sender, agentId, newDailyLimit, newPerTxLimit) ==
  Do("updateLimits", updateLimits(S, sender, agentId, newDailyLimit, newPerTxLimit, now))

SetMerchantWhitelist(sender, agentId, merchant, allowed) ==
  Do("setMerchantWhitelist", setMerchantWhitelist(S, sender, agentId, merchant, allowed))

Pay(sender, agentId, merchant, amount, hasData, extOk) ==
  /\ CanCall
  /\ LET r == pay(S, sender, agentId, merchant, amount, hasData, now, extOk) IN
     IF r.err = "calling"
     THEN EnterCallback("pay", r, agentId, merchant, amount)
     ELSE Do("pay", r)

CreateSubscription(sender, agentId, merchant, amountPerPeriod, periodSeconds, firstExecutionAt) ==
  /\ CanCall
  /\ nextSubscriptionId[agentId] < MaxSubs
  /\ Do("createSubscription",
        createSubscription(S, sender, agentId, merchant, amountPerPeriod,
                           periodSeconds, firstExecutionAt, now))

SetSubscriptionStatus(sender, agentId, subscriptionId, active) ==
  Do("setSubscriptionStatus",
     setSubscriptionStatus(S, sender, agentId, subscriptionId, active))

ExecuteSubscription(agentId, subscriptionId, hasData, extOk) ==
  /\ CanCall
  /\ LET r == executeSubscription(S, agentId, subscriptionId, hasData, now, extOk)
         sub == subscriptions[agentId][subscriptionId] IN
     IF r.err = "calling"
     THEN EnterCallback("executeSubscription", r, agentId, sub.merchant,
                        sub.amountPerPeriod)
     ELSE Do("executeSubscription", r)

\* A holder approves the wallet to pull its tokens (TestUSDC.approve).
Approve(owner) ==
  /\ CanCall
  /\ tokBalances[owner] > 0
  /\ Do("approve", Result(tokApprove(S, owner, Wallet, tokBalances[owner]), "ok"))

\* spender pulls from the custody pool under whatever allowance it holds
\* (TestUSDC.transferFrom; PullMerchant.charge does this inside a callback).
Pull(spender, amount) ==
  /\ CanCall
  /\ amount > 0
  /\ Do("transferFrom", tokTransferFrom(S, spender, Wallet, spender, amount))

\* The merchant's code returns (ok) or reverts: `require(ok, ...)` then reverts
\* the whole payment.
CallbackReturn(ok) ==
  /\ Live
  /\ cb.active
  /\ IF ok THEN Store(exitGuard(S)) ELSE Store(snap)
  /\ last' = Outcome(cb.op, IF ok THEN "ok" ELSE "ExternalTransferFailed")
  /\ cb' = NoCb
  /\ snap' = NoSnap
  /\ debits' = IF ok THEN Logged(cb.agentId, cb.amount)
               ELSE IF debits.on THEN [debits EXCEPT !.peak = debits.held]
               ELSE debits
  /\ UNCHANGED <<now, relay>>

Periods == {0, MinPeriod}
FirstTimes == {0}
SubAmts == {0, 1, 2}

\* Who can be calling: any caller in a transaction of its own, the merchant
\* inside its callback.
Callers == IF cb.active THEN {cb.merchant} ELSE TopCallers

\* Test tokens are minted to a holder (TestUSDC.mint).
Mint(to, amount) ==
  Do("mint", Result(tokMint(S, to, amount), "ok"))

\* A request to the relay, answered: h is what its handler did.
Served(h) ==
  /\ Live
  /\ ~cb.active
  /\ Store(h.st)
  /\ relay' = [store |-> h.store, resp |-> h.resp]
  /\ last' = Outcome("request", "ok")
  /\ UNCHANGED <<now, cb, snap, debits>>

RegisterAgent(dailyLimit, perTxLimit) ==
  /\ nextAgentId < MaxAgents
  /\ Served(registerAgent(S, relay.store, dailyLimit, perTxLimit, now))

RegisterComplete(agentId, account) ==
  Served(registerComplete(S, relay.store, agentId, account))

AgentPay(wellFormed, agentId, merchant, amount, hasData) ==
  Served(agentPay(S, relay.store, wellFormed, agentId, merchant, amount, hasData, now))

\* The merchant's code inside its callback: it pulls what it was authorized to
\* (PullMerchant.charge) or calls back into the wallet.
CallbackPull(amount) == cb.active /\ Pull(cb.merchant, amount)

\* One agent is created and every call is made on its id.
FirstAgent == {1}
\* An agent's first subscription, for the specifications that create one.
FirstSub == {1}
CreateFirstSubscription(sender, agentId, merchant, amountPerPeriod, periodSeconds, firstExecutionAt) ==
  /\ nextSubscriptionId[agentId] = 0
  /\ CreateSubscription(sender, agentId, merchant, amountPerPeriod, periodSeconds, firstExecutionAt)

Next ==
  \/ Tick
  \/ \E c \in Creators \cap Callers, a \in Delegates, q \in LimitPairs :
        nextAgentId = 0 /\ CreateAgent(c, a, q[1], q[2])
  \/ \E c \in Callers, i \in FirstAgent, x \in Amts, ok \in BOOLEAN : Deposit(c, i, x, ok)
  \/ \E c \in Callers, i \in FirstAgent, x \in Amts, ok \in BOOLEAN : Withdraw(c, i, x, ok)
  \/ \E c \in Callers, i \in FirstAgent, ok \in BOOLEAN : EmergencyWithdraw(c, i, ok)
  \/ \E c \in Callers, i \in FirstAgent, b \in BOOLEAN : SetPolicyActive(c, i, b)
  \/ \E c \in Callers, i \in FirstAgent, q \in LimitPairs : UpdateLimits(c, i, q[1], q[2])
  \/ \E c \in Callers, i \in FirstAgent, m \in Merchants, b \in BOOLEAN :
        SetMerchantWhitelist(c, i, m, b)
  \/ \E c \in Callers, i \in FirstAgent, m \in Merchants, x \in PayAmts, z \in Settlements :
        Pay(c, i, m, x, z[1], z[2])
  \/ \E c \in Callers, i \in FirstAgent, m \in Merchants, x \in SubAmts, q \in Periods,
        f \in FirstTimes : CreateFirstSubscription(c, i, m, x, q, f)
  \/ \E i \in FirstAgent, k \in FirstSub, z \in Settlements :
        ExecuteSubscription(i, k, z[1], z[2])
  \/ \E c \in Callers : Approve(c)
  \/ \E x \in Amts : CallbackPull(x)
  \/ \E ok \in BOOLEAN : CallbackReturn(ok)

Spec == Init /\ [][Next]_vars

\* The owner's administration of one agent, with the delegate replaced along the
\* way: the agent is created with its owner as delegate, calls are made on the
\* agent's id and on ids that do not exist, by the owner and by another address.
AdminLimits == {<<2, 1>>, <<1, 2>>}
\* The id of the one agent created, and the id no agent has.
FirstIds == {0} \cup FirstAgent
NextAccess ==
  \/ Tick
  \/ \E c \in Creators, q \in AdminLimits : nextAgentId = 0 /\ CreateAgent(c, c, q[1], q[2])
  \/ \E c \in TopCallers, i \in FirstIds, a \in AddrsOrNull : SetAgentAddress(c, i, a)
  \/ \E c \in TopCallers, i \in FirstIds, b \in BOOLEAN : SetPolicyActive(c, i, b)
  \/ \E c \in TopCallers, i \in FirstIds, q \in AdminLimits : UpdateLimits(c, i, q[1], q[2])
  \/ \E c \in TopCallers, i \in FirstIds, m \in Merchants, b \in BOOLEAN :
        SetMerchantWhitelist(c, i, m, b)
  \/ \E c \in TopCallers : Approve(c)
  \/ \E c \in TopCallers, i \in FirstIds, x \in Amts : Deposit(c, i, x, TRUE)
  \/ \E c \in TopCallers, i \in FirstIds, x \in Amts : Withdraw(c, i, x, TRUE)
  \/ \E c \in TopCallers, i \in FirstIds : EmergencyWithdraw(c, i, TRUE)
  \/ \E c \in TopCallers, i \in FirstIds, x \in PayAmts : Pay(c, i, "shop", x, FALSE, TRUE)
  \/ \E c \in TopCallers, i \in FirstIds, m \in Merchants :
        CreateFirstSubscription(c, i, m, 1, MinPeriod, 0)
  \/ \E c \in TopCallers, i \in FirstIds, k \in SubIds, b \in BOOLEAN :
        SetSubscriptionStatus(c, i, k, b)

SpecAccess == Init /\ [][NextAccess]_vars

\* Payments of one agent to every kind of merchant: an outside contract (which
\* owns a second agent of its own), the agent's owner, its delegate and the
\* wallet contract itself (by direct transfer).  Inside a callback the
\* merchant's code calls back into the wallet, on either agent.
PayMerchants == {"shop", "alice", "bot", Wallet}
PayLimits == {<<2, 1>>, <<2, 2>>}
NextPay ==
  \/ \E q \in PayLimits : nextAgentId = 0 /\ CreateAgent("alice", "bot", q[1], q[2])
  \/ nextAgentId = 1 /\ ~cb.active /\ CreateAgent("shop", "shop", 2, 2)
  \/ \E m \in PayMerchants : ~cb.active /\ SetMerchantWhitelist("alice", 1, m, TRUE)
  \/ ~cb.active /\ Approve("alice")
  \/ \E a \in BOOLEAN : ~cb.active /\ SetPolicyActive("alice", 1, a)
  \/ \E x \in {0, InitFunds} : ~cb.active /\ Deposit("alice", 1, x, TRUE)
  \/ ~cb.active /\ CreateFirstSubscription("alice", 1, "shop", 1, MinPeriod, 0)
  \/ \E m \in PayMerchants, x \in PayAmts, h \in BOOLEAN :
        ~cb.active /\ (h => m # Wallet) /\ Pay("bot", 1, m, x, h, TRUE)
  \/ \E i \in 1..MaxAgents : cb.active /\ Deposit(cb.merchant, i, 1, TRUE)
  \/ \E i \in 1..MaxAgents : cb.active /\ Withdraw(cb.merchant, i, 1, TRUE)
  \/ \E i \in 1..MaxAgents : cb.active /\ EmergencyWithdraw(cb.merchant, i, TRUE)
  \/ \E i \in 1..MaxAgents : cb.active /\ Pay(cb.merchant, i, "shop", 1, FALSE, TRUE)
  \/ \E h \in BOOLEAN : ExecuteSubscription(1, 1, h, TRUE)
  \/ \E x \in Amts : CallbackPull(x)
  \/ \E x \in Amts : ~cb.active /\ Pull("shop", x)
  \/ \E ok \in BOOLEAN : CallbackReturn(ok)

SpecPay == Init /\ [][NextPay]_vars

\* Subscriptions of one agent, executed by every kind of caller (the owner, the
\* delegate, the merchant, and "bot" when the owner is her own delegate), on
\* time and late, with a period that carries the next execution past 2^64.
ExecuteSubscriptionBy(sender, agentId, subscriptionId, hasData, extOk) ==
  /\ CanCall
  /\ cb.active => sender = cb.merchant
  /\ LET r == executeSubscriptionFrom(S, sender, agentId, subscriptionId, hasData, now, extOk)
         sub == subscriptions[agentId][subscriptionId] IN
     IF r.err = "calling"
     THEN EnterCallback("executeSubscription", r, agentId, sub.merchant,
                        sub.amountPerPeriod)
     ELSE Do("executeSubscription", r)

SubPeriods == {MinPeriod, OneDay, Uint64Mod - 1}
SubFirstTimes == {0, OneDay}
NextSubs ==
  \/ Tick
  \/ \E d \in {"alice", "bot"} : nextAgentId = 0 /\ CreateAgent("alice", d, 2, 2)
  \/ ~cb.active /\ SetMerchantWhitelist("alice", 1, "shop", TRUE)
  \/ ~cb.active /\ Approve("alice")
  \/ ~cb.active /\ Deposit("alice", 1, InitFunds, TRUE)
  \/ \E p \in SubPeriods, f \in SubFirstTimes :
        ~cb.active /\ CreateFirstSubscription("alice", 1, "shop", 1, p, f)
  \/ \E a \in BOOLEAN : ~cb.active /\ SetSubscriptionStatus("alice", 1, 1, a)
  \/ \E c \in Addrs, k \in SubIds, h \in BOOLEAN : ExecuteSubscriptionBy(c, 1, k, h, TRUE)
  \/ CallbackPull(1)
  \/ \E ok \in BOOLEAN : CallbackReturn(ok)
SpecSubs == Init /\ [][NextSubs]_vars

\* Payments and subscription executions of one agent whose limits are never
\* updated, over more than one daily window, with the history of debits kept.
CapLimits == {<<1, 1>>, <<2, 1>>, <<2, 2>>}
InitCap == Deployed /\ debits = [NoDebits EXCEPT !.on = TRUE]
NextCap ==
  \/ Tick
  \/ \E q \in CapLimits : nextAgentId = 0 /\ CreateAgent("alice", "bot", q[1], q[2])
  \/ ~cb.active /\ SetMerchantWhitelist("alice", 1, "shop", TRUE)
  \/ ~cb.active /\ Approve("alice")
  \/ ~cb.active /\ Deposit("alice", 1, InitFunds, TRUE)
  \/ ~cb.active /\ CreateFirstSubscription("alice", 1, "shop", 1, MinPeriod, 0)
  \/ \E x \in PayAmts, h \in BOOLEAN : ~cb.active /\ Pay("bot", 1, "shop", x, h, TRUE)
  \/ \E h \in BOOLEAN : ~cb.active /\ ExecuteSubscription(1, 1, h, TRUE)
  \/ CallbackPull(1)
  \/ \E ok \in BOOLEAN : CallbackReturn(ok)
SpecCap == InitCap /\ [][NextCap]_vars

\* Payments of one agent interleaved with limit updates by its owner, over
\* more than one daily window, with the history kept; the owner is minted one
\* more token once she has deposited all she had.
NextLimits ==
  \/ Tick
  \/ nextAgentId = 0 /\ CreateAgent("alice", "bot", 2, 2)
  \/ ~cb.active /\ SetMerchantWhitelist("alice", 1, "shop", TRUE)
  \/ ~cb.active /\ Approve("alice")
  \/ \E x \in {1, InitFunds} : ~cb.active /\ Deposit("alice", 1, x, TRUE)
  \/ /\ ~cb.active
     /\ tokBalances[Wallet] = InitFunds
     /\ \A h \in Holders \ {Wallet} : tokBalances[h] = 0
     /\ Mint("alice", 1)
  \/ \E q \in CapLimits : ~cb.active /\ UpdateLimits("alice", 1, q[1], q[2])
  \/ \E x \in PayAmts, h \in BOOLEAN : ~cb.active /\ Pay("bot", 1, "shop", x, h, TRUE)
  \/ CallbackPull(1)
  \/ \E ok \in BOOLEAN : CallbackReturn(ok)
SpecLimits == InitCap /\ [][NextLimits]_vars

\* The relay: agents registered through it or reported to it, funded and
\* whitelisted by the owner on the contract, and paid through POST /agent/pay
\* (bodies without a callback payload) or by the delegate directly.
NextRelay ==
  \/ \E q \in AdminLimits : RegisterAgent(q[1], q[2])
  \/ \E i \in 1..MaxAgents, a \in {RelayKey, "shop"} : RegisterComplete(i, a)
  \/ \E i \in 1..MaxAgents : SetMerchantWhitelist(RelayOwner, i, "shop", TRUE)
  \/ Approve(RelayOwner)
  \/ \E i \in 1..MaxAgents : Deposit(RelayOwner, i, 1, TRUE)
  \/ \E i \in 1..MaxAgents : Pay(RelayKey, i, "shop", 1, FALSE, TRUE)
  \/ \E w \in BOOLEAN, i \in AgentIds, x \in PayAmts : AgentPay(w, i, "shop", x, FALSE)
SpecRelay == Init /\ [][NextRelay]_vars

\* The payment pipeline without the latch: the merchant, which is the agent's
\* delegate too, pays and executes the subscription again from inside the
\* callback of a payment, and nothing rejects the nested entry.
PayNested(agentId, merchant, amount) ==
  /\ cb.active
  /\ Do("pay", payNested(S, cb.merchant, agentId, merchant, amount, now, TRUE))

ExecuteSubscriptionNested(agentId, subscriptionId) ==
  /\ cb.active
  /\ Do("executeSubscription",
        executeSubscriptionNested(S, agentId, subscriptionId, now, TRUE))

NextNoLatch ==
  \/ Tick
  \/ \E q \in PayLimits : nextAgentId = 0 /\ CreateAgent("alice", "shop", q[1], q[2])
  \/ ~cb.active /\ SetMerchantWhitelist("alice", 1, "shop", TRUE)
  \/ ~cb.active /\ Approve("alice")
  \/ ~cb.active /\ Deposit("alice", 1, InitFunds, TRUE)
  \/ ~cb.active /\ CreateFirstSubscription("alice", 1, "shop", 1, MinPeriod, 0)
  \/ \E x \in PayAmts, h \in BOOLEAN : ~cb.active /\ Pay("shop", 1, "shop", x, h, TRUE)
  \/ \E h \in BOOLEAN : ~cb.active /\ ExecuteSubscription(1, 1, h, TRUE)
  \/ \E x \in PayAmts : PayNested(1, "shop", x)
  \/ ExecuteSubscriptionNested(1, 1)
  \/ \E x \in PayAmts : CallbackPull(x)
  \/ \E ok \in BOOLEAN : CallbackReturn(ok)
SpecNoLatch == Init /\ [][NextNoLatch]_vars

\* What a merchant can do from inside its callback: the guarded entry points
\* and the owner's unguarded ones (limits, whitelist, pause), on the agent
\* being paid from, which the merchant may own, and on an agent of its own.
NestedLimits == {<<1, 1>>, <<2, 2>>}
NextNested ==
  \/ nextAgentId = 0 /\ CreateAgent("alice", "bot", 2, 2)
  \/ nextAgentId = 1 /\ ~cb.active /\ CreateAgent("shop", "shop", 2, 2)
  \/ \E m \in {"shop", "alice"} : ~cb.active /\ SetMerchantWhitelist("alice", 1, m, TRUE)
  \/ ~cb.active /\ Approve("alice")
  \/ ~cb.active /\ Deposit("alice", 1, InitFunds, TRUE)
  \/ \E m \in {"shop", "alice"}, x \in PayAmts, h \in BOOLEAN :
        ~cb.active /\ Pay("bot", 1, m, x, h, TRUE)
  \/ \E i \in 1..MaxAgents, q \in NestedLimits :
        cb.active /\ UpdateLimits(cb.merchant, i, q[1], q[2])
  \/ \E i \in 1..MaxAgents, a \in BOOLEAN :
        cb.active /\ SetMerchantWhitelist(cb.merchant, i, "bot", a)
  \/ \E i \in 1..MaxAgents : cb.active /\ SetPolicyActive(cb.merchant, i, FALSE)
  \/ \E i \in 1..MaxAgents : cb.active /\ Withdraw(cb.merchant, i, 1, TRUE)
  \/ \E i \in 1..MaxAgents : cb.active /\ EmergencyWithdraw(cb.merchant, i, TRUE)
  \/ \E x \in Amts : CallbackPull(x)
  \/ \E ok \in BOOLEAN : CallbackReturn(ok)
SpecNested == Init /\ [][NextNested]_vars

\* Agents created one after the other by two owners, at top level and from
\* inside a merchant callback, with creations that fail in between, and the
\* operations that rewrite an agent's record.
AgentLimits == {<<2, 2>>, <<1, 2>>, <<0, 1>>}
NextAgents ==
  \/ Tick
  \/ \E c \in {"alice", "shop"}, a \in Delegates, q \in AgentLimits :
        (cb.active => c = cb.merchant) /\ CreateAgent(c, a, q[1], q[2])
  \/ ~cb.active /\ SetMerchantWhitelist("alice", 1, "shop", TRUE)
  \/ ~cb.active /\ Approve("alice")
  \/ ~cb.active /\ Deposit("alice", 1, InitFunds, TRUE)
  \/ \E i \in 1..MaxAgents : ~cb.active /\ SetAgentAddress("alice", i, "shop")
  \/ \E i \in 1..MaxAgents : ~cb.active /\ EmergencyWithdraw("alice", i, TRUE)
  \/ \E h \in BOOLEAN : ~cb.active /\ Pay("bot", 1, "shop", 1, h, TRUE)
  \/ \E ok \in BOOLEAN : CallbackReturn(ok)
SpecAgents == Init /\ [][NextAgents]_vars

\* Subscriptions created one after the other on two agents, by the owner and
\* by others, for merchants on and off the whitelist, with amounts and periods
\* valid and not, due at once or later.
CreatePeriods == {0, MinPeriod}
CreateFirstTimes == {0, OneDay}
NextCreate ==
  \/ Tick
  \/ nextAgentId = 0 /\ CreateAgent("alice", "bot", 2, 2)
  \/ nextAgentId = 1 /\ CreateAgent("shop", "shop", 2, 2)
  \/ \E i \in 1..MaxAgents, a \in BOOLEAN :
        agentExists(S, i) /\ SetMerchantWhitelist(agents[i].owner, i, "shop", a)
  \/ \E c \in Addrs, i \in 1..MaxAgents, m \in {"shop", "bot"}, x \in {0, 1},
        p \in CreatePeriods, f \in CreateFirstTimes : CreateSubscription(c, i, m, x, p, f)
SpecCreate == Init /\ [][NextCreate]_vars

\* A subscription executed after the owner has paused the policy, removed the
\* merchant from the whitelist, lowered the limits, or after the delegate has
\* spent from the same allowance of the day.
ExecLimits == {<<1, 1>>, <<2, 1>>, <<2, 2>>}
NextExec ==
  \/ Tick
  \/ nextAgentId = 0 /\ CreateAgent("alice", "bot", 2, 2)
  \/ \E a \in BOOLEAN : ~cb.active /\ SetMerchantWhitelist("alice", 1, "shop", a)
  \/ ~cb.active /\ Approve("alice")
  \/ \E x \in {1, InitFunds} : ~cb.active /\ Deposit("alice", 1, x, TRUE)
  \/ \E x \in {1, 2} :
        ~cb.active /\ CreateFirstSubscription("alice", 1, "shop", x, MinPeriod, 0)
  \/ \E a \in BOOLEAN : ~cb.active /\ SetPolicyActive("alice", 1, a)
  \/ \E q \in ExecLimits : ~cb.active /\ UpdateLimits("alice", 1, q[1], q[2])
  \/ ~cb.active /\ Pay("bot", 1, "shop", 1, FALSE, TRUE)
  \/ \E h \in BOOLEAN : ~cb.active /\ ExecuteSubscription(1, 1, h, TRUE)
  \/ \E ok \in BOOLEAN : CallbackReturn(ok)
SpecExec == Init /\ [][NextExec]_vars

\* Payments of an agent whose limits are small or the largest the word holds,
\* for amounts up to the largest the word holds, by the delegate and by
\* others, to the merchant and to the null address, on the agent's id and on
\* an id no agent has, at top level and inside a callback.
OrderLimits == {<<2, 1>>, <<MaxUint, MaxUint>>}
OrderAmts == {0, 1, 2, MaxUint}
NextOrder ==
  \/ Tick
  \/ \E q \in OrderLimits : nextAgentId = 0 /\ CreateAgent("alice", "bot", q[1], q[2])
  \/ \E a \in BOOLEAN : ~cb.active /\ SetMerchantWhitelist("alice", 1, "shop", a)
  \/ \E a \in BOOLEAN : ~cb.active /\ SetPolicyActive("alice", 1, a)
  \/ ~cb.active /\ Approve("alice")
  \/ \E x \in {1, InitFunds} : ~cb.active /\ Deposit("alice", 1, x, TRUE)
  \/ \E c \in TopCallers, i \in FirstIds, m \in Merchants, x \in OrderAmts, h \in BOOLEAN :
        ~cb.active /\ Pay(c, i, m, x, h, TRUE)
  \/ \E x \in OrderAmts : cb.active /\ Pay(cb.merchant, 1, "shop", x, FALSE, TRUE)
  \/ \E ok \in BOOLEAN : CallbackReturn(ok)
SpecOrder == Init /\ [][NextOrder]_vars

\* Two funded agents of two owners, each paying the other's owner, by direct
\* transfer and by callback, with pulls inside callbacks and after them, and
\* withdrawals.
SolventPulls == {1, 2}
NextSolvent ==
  \/ nextAgentId = 0 /\ CreateAgent("alice", "bot", 2, 2)
  \/ nextAgentId = 1 /\ ~cb.active /\ CreateAgent("shop", "shop", 2, 2)
  \/ ~cb.active /\ SetMerchantWhitelist("alice", 1, "shop", TRUE)
  \/ ~cb.active /\ SetMerchantWhitelist("shop", 2, "alice", TRUE)
  \/ \E c \in {"alice", "shop"} : ~cb.active /\ Approve(c)
  \/ \E x \in {1, InitFunds} : ~cb.active /\ Deposit("alice", 1, x, TRUE)
  \/ ~cb.active /\ Deposit("shop", 2, 1, TRUE)
  \/ ~cb.active /\ Withdraw("alice", 1, 1, TRUE)
  \/ ~cb.active /\ EmergencyWithdraw("shop", 2, TRUE)
  \/ \E x \in PayAmts, h \in BOOLEAN : ~cb.active /\ Pay("bot", 1, "shop", x, h, TRUE)
  \/ \E h \in BOOLEAN : ~cb.active /\ Pay("shop", 2, "alice", 1, h, TRUE)
  \/ \E x \in SolventPulls : CallbackPull(x)
  \/ \E m \in {"alice", "shop"}, x \in SolventPulls : ~cb.active /\ Pull(m, x)
  \/ \E ok \in BOOLEAN : CallbackReturn(ok)
SpecSolvent == Init /\ [][NextSolvent]_vars

\* The two agents of NextSolvent, with a subscription each, and their owners'
\* unguarded operations made from inside the other agent's callback.
NextIsolated ==
  \/ NextSolvent
  \/ \E i \in 1..MaxAgents :
        /\ ~cb.active
        /\ agentExists(S, i)
        /\ CreateFirstSubscription(agents[i].owner, i, IF i = 1 THEN "shop" ELSE "alice",
                                   1, MinPeriod, 0)
  \/ \E i \in 1..MaxAgents, h \in BOOLEAN : ~cb.active /\ ExecuteSubscription(i, 1, h, TRUE)
  \/ \E i \in 1..MaxAgents : cb.active /\ UpdateLimits(cb.merchant, i, 1, 1)
  \/ \E i \in 1..MaxAgents : cb.active /\ SetMerchantWhitelist(cb.merchant, i, "bot", TRUE)
SpecIsolated == Init /\ [][NextIsolated]_vars

\* One funded agent with a subscription; the wallet contract changes hands;
\* every address tries to withdraw, to drain and to pay; the delegate is
\* replaced; the subscription is paused, resumed and executed.
NextOwned ==
  \/ Tick
  \/ nextAgentId = 0 /\ CreateAgent("alice", "bot", 2, 2)
  \/ \E c \in Addrs, n \in AddrsOrNull :
        (cb.active => c = cb.merchant) /\ TransferOwnership(c, n)
  \/ ~cb.active /\ SetMerchantWhitelist("alice", 1, "shop", TRUE)
  \/ ~cb.active /\ Approve("alice")
  \/ ~cb.active /\ Deposit("alice", 1, InitFunds, TRUE)
  \/ \E d \in {"bot", "shop"} : ~cb.active /\ SetAgentAddress("alice", 1, d)
  \/ \E f \in {0, OneDay} :
        ~cb.active /\ CreateFirstSubscription("alice", 1, "shop", 1, MinPeriod, f)
  \/ \E a \in BOOLEAN : ~cb.active /\ SetSubscriptionStatus("alice", 1, 1, a)
  \/ \E c \in Addrs : ~cb.active /\ Withdraw(c, 1, 1, TRUE)
  \/ \E c \in Addrs : ~cb.active /\ EmergencyWithdraw(c, 1, TRUE)
  \/ \E c \in Addrs, h \in BOOLEAN : ~cb.active /\ Pay(c, 1, "shop", 1, h, TRUE)
  \/ \E h \in BOOLEAN : ~cb.active /\ ExecuteSubscription(1, 1, h, TRUE)
  \/ \E ok \in BOOLEAN : CallbackReturn(ok)
SpecOwned == Init /\ [][NextOwned]_vars

\* ------------------------------------------------------------------ claims
\* Inputs the properties quantify over: every address, every agent id (0 and
\* ids not yet created included), every amount of the model and MaxUint.
\* What a call would do is asked in the states calls are made from (Live): the
\* state a reverted call leaves has the storage of the state it was made in.
AnyAmts == Amts \cup {MaxUint}
Existing == {i \in AgentIds : agentExists(S, i)}
Accepted(r) == r.err \in {"ok", "calling"}

\* C1: in every state, every existing agent has spentToday <= dailyLimit.
C1_SpentWithinDailyLimit ==
  \A i \in Existing : agents[i].spentToday <= agents[i].dailyLimit

\* A payment has just filled the daily limit.
C1_Witness ==
  \E i \in Existing :
    /\ last = [op |-> "pay", err |-> "ok"]
    /\ agents[i].spentToday = agents[i].dailyLimit

\* C2: every existing agent has 0 < perTxLimit <= dailyLimit; and a createAgent
\* or updateLimits call that reaches the validation of its limits with a zero
\* limit or with perTxLimit > dailyLimit reverts with InvalidLimits, leaving the
\* storage as it was.
C2_LimitsValid ==
  /\ \A i \in Existing :
       /\ 0 < agents[i].perTxLimit
       /\ agents[i].perTxLimit <= agents[i].dailyLimit
  /\ \A d \in AnyAmts, q \in AnyAmts :
       (Live /\ (d = 0 \/ q = 0 \/ q > d)) =>
         /\ \A c \in Addrs, a \in Addrs :
              createAgent(S, c, a, d, q, now) = Result(S, "InvalidLimits")
         /\ \A i \in Existing :
              updateLimits(S, agents[i].owner, i, d, q, now) = Result(S, "InvalidLimits")

\* An updateLimits call on an existing agent was rejected for its limits.
C2_Witness ==
  /\ last = [op |-> "updateLimits", err |-> "InvalidLimits"]
  /\ Existing # {}

\* C3: no balance is ever negative; a withdraw by the owner, a pay or an
\* executeSubscription for more than the agent's balance is never accepted, and
\* reverts with InsufficientBalance when it gets as far as the balance check.
C3_NoOverdraft ==
  \A i \in AgentIds :
    /\ balances[i] >= 0
    /\ \A x \in AnyAmts, ok \in BOOLEAN :
         (Live /\ x > balances[i]) =>
           /\ ~Accepted(withdraw(S, agents[i].owner, i, x, ok))
           /\ (i \in Existing /\ status = NOT_ENTERED) =>
                withdraw(S, agents[i].owner, i, x, ok).err = "InsufficientBalance"
           /\ \A m \in AddrsOrNull, h \in BOOLEAN :
                LET r == pay(S, agents[i].agent, i, m, x, h, now, ok) IN
                /\ ~Accepted(r)
                /\ (/\ i \in Existing /\ status = NOT_ENTERED
                    /\ agents[i].active /\ merchantWhitelist[i][m]
                    /\ x <= agents[i].perTxLimit
                    /\ spentTodayView(S, i, now) + x <= agents[i].dailyLimit)
                   => r.err = "InsufficientBalance"
    /\ \A k \in SubIds, h \in BOOLEAN, ok \in BOOLEAN :
         (Live /\ subscriptions[i][k].amountPerPeriod > balances[i]) =>
           ~Accepted(executeSubscription(S, i, k, h, now, ok))

\* A withdraw and a payment were each refused for lack of balance while the
\* agent held funds.
C3_Witness ==
  \E i \in Existing :
    /\ last.op \in {"withdraw", "pay", "executeSubscription"}
    /\ last.err = "InsufficientBalance"
    /\ balances[i] > 0

\* The error kinds of a call that reverted.
Failed(e) == e \notin {"ok", "calling"}

\* C4: a call that fails leaves the storage of both contracts as it was before
\* the call: a call that reverts before reaching the merchant leaves S as it
\* was, and a payment whose merchant callback fails leaves the storage it
\* started from (the storage held when the payment was called).
C4_FailureChangesNothing ==
  [][ /\ (Failed(last'.err) /\ cb'.active = cb.active) => S' = S
      /\ (~cb.active /\ cb'.active) => snap' = S
      /\ (cb.active /\ cb'.active) => snap' = snap
      /\ (Failed(last'.err) /\ cb.active /\ ~cb'.active) => S' = snap ]_vars

\* An executeSubscription failed at settlement, after the debit, at a time when
\* a window reset was due and some spend was recorded: the reset, the advanced
\* nextExecutionAt and the debit were all undone.
C4_Witness ==
  \E i \in Existing, k \in SubIds :
    /\ last = [op |-> "executeSubscription", err |-> "ExternalTransferFailed"]
    /\ now >= agents[i].lastReset + OneDay
    /\ agents[i].spentToday > 0
    /\ subscriptions[i][k].active
    /\ subscriptions[i][k].nextExecutionAt <= now
    /\ balances[i] >= subscriptions[i][k].amountPerPeriod

\* The error kinds the owner-gated functions, and pay, give caller c on agent id
\* i over every other input.
GatedErrs(s, c, i, t) ==
  {setAgentAddress(s, c, i, a).err : a \in AddrsOrNull}
    \cup {setPolicyActive(s, c, i, b).err : b \in BOOLEAN}
    \cup {updateLimits(s, c, i, q[1], q[2], t).err : q \in LimitPairs}
    \cup {setMerchantWhitelist(s, c, i, m, b).err : m \in AddrsOrNull, b \in BOOLEAN}
    \cup {deposit(s, c, i, x, ok).err : x \in Amts, ok \in BOOLEAN}
    \cup {withdraw(s, c, i, x, ok).err : x \in Amts, ok \in BOOLEAN}
    \cup {emergencyWithdraw(s, c, i, ok).err : ok \in BOOLEAN}
    \cup {createSubscription(s, c, i, m, x, q, 0, t).err :
            m \in AddrsOrNull, x \in Amts, q \in {0, MinPeriod}}
    \cup {setSubscriptionStatus(s, c, i, k, b).err : k \in SubIds, b \in BOOLEAN}
PayErrs(s, c, i, t) ==
  {pay(s, c, i, m, x, h, t, ok).err :
     m \in AddrsOrNull, x \in Amts, h \in BOOLEAN, ok \in BOOLEAN}

\* C5: on an agent id that does not exist, every owner-gated and delegate-gated
\* function reverts with AgentNotFound whoever calls it; on an existing agent,
\* every owner-gated function called by another address than the owner reverts
\* with NotAgentOwner, and pay called by another address than the delegate (the
\* owner included) reverts with NotAgent.
C5_AccessControl ==
  Live =>
    \A i \in AgentIds, c \in Addrs :
      /\ i \notin Existing =>
           GatedErrs(S, c, i, now) \cup PayErrs(S, c, i, now) = {"AgentNotFound"}
      /\ (i \in Existing /\ c # agents[i].owner) =>
           GatedErrs(S, c, i, now) = {"NotAgentOwner"}
      /\ (i \in Existing /\ c # agents[i].agent) =>
           PayErrs(S, c, i, now) = {"NotAgent"}

\* The agent was created with its owner as delegate, the delegate has been
\* replaced by another address, and a pay by a caller that is not the new
\* delegate (the owner, the only other caller of SpecAccess) was refused.
C5_Witness ==
  /\ last = [op |-> "pay", err |-> "NotAgent"]
  /\ Existing # {}
  /\ \A i \in Existing : agents[i].owner = "alice" /\ agents[i].agent = "bot"

C7_PerTxLimit ==
  Live =>
    \A i \in Existing, t \in now..(Uint64Mod - 1) :
      /\ \A x \in AnyAmts, m \in Addrs, h \in BOOLEAN, ok \in BOOLEAN :
           x > agents[i].perTxLimit =>
             LET r == pay(S, agents[i].agent, i, m, x, h, t, ok) IN
             /\ ~Accepted(r)
             /\ (status = NOT_ENTERED /\ agents[i].active /\ merchantWhitelist[i][m])
                  => r = Result(S, "PerTxLimitExceeded")
      /\ \A k \in SubIds, h \in BOOLEAN, ok \in BOOLEAN :
           subscriptions[i][k].amountPerPeriod > agents[i].perTxLimit =>
             LET r == executeSubscription(S, i, k, h, t, ok) IN
             /\ ~Accepted(r)
             /\ (/\ status = NOT_ENTERED /\ agents[i].active
                 /\ subscriptions[i][k].active
                 /\ t >= subscriptions[i][k].nextExecutionAt
                 /\ merchantWhitelist[i][subscriptions[i][k].merchant])
                  => r = Result(S, "PerTxLimitExceeded")

\* A pay that the balance and the daily limit would have allowed was refused
\* for exceeding perTxLimit.
C7_Witness ==
  \E i \in Existing :
    /\ last = [op |-> "pay", err |-> "PerTxLimitExceeded"]
    /\ agents[i].active
    /\ agents[i].perTxLimit < agents[i].dailyLimit
    /\ agents[i].spentToday = 0
    /\ balances[i] > agents[i].perTxLimit

C9_WindowReset ==
  Live =>
    \A i \in Existing, t \in now..(Uint64Mod - 1) :
      t >= agents[i].lastReset + OneDay =>
        /\ \A m \in Addrs, x \in AnyAmts \ {0}, h \in BOOLEAN, ok \in BOOLEAN :
             LET q == processPayment(S, i, m, x, h, t, ok)
                 r == pay(S, agents[i].agent, i, m, x, h, t, ok) IN
             /\ q.st.agents[i].lastReset = t
             /\ q.st.agents[i].spentToday = IF q.st.bal[i] = balances[i] THEN 0 ELSE x
             /\ Accepted(r) => /\ r.st.agents[i].spentToday = x
                               /\ r.st.agents[i].lastReset = t
             /\ x <= agents[i].perTxLimit => r.err # "DailyLimitExceeded"
        /\ \A k \in SubIds, h \in BOOLEAN, ok \in BOOLEAN :
             LET r == executeSubscription(S, i, k, h, t, ok) IN
             Accepted(r) =>
               /\ r.st.agents[i].spentToday = subscriptions[i][k].amountPerPeriod
               /\ r.st.agents[i].lastReset = t

\* A pay went through at lastReset + 1 days or later: the window now starts at
\* the time of that pay and spentToday is less than what the merchant has
\* received (the spend of the elapsed window was discarded).
C9_Witness ==
  \E i \in Existing :
    /\ last = [op |-> "pay", err |-> "ok"]
    /\ agents[i].lastReset = now
    /\ agents[i].spentToday > 0
    /\ tokBalances["shop"] > agents[i].spentToday

\* C10: at a time t strictly before lastReset + 1 days the window check changes
\* nothing, and an accepted pay, executeSubscription or updateLimits leaves
\* lastReset as it was and does not bring a non-zero spentToday to zero (the
\* payments only add to it); and at any time the window check applied twice
\* gives the storage it gives applied once.
C10_ResetIdempotent ==
  Live =>
    \A i \in Existing, t \in Times :
      /\ resetIfNeeded(resetIfNeeded(S, i, t), i, t) = resetIfNeeded(S, i, t)
      /\ (t >= now /\ t < agents[i].lastReset + OneDay) =>
           /\ resetIfNeeded(S, i, t) = S
           /\ \A m \in Addrs, x \in Amts, h \in BOOLEAN, ok \in BOOLEAN :
                LET r == pay(S, agents[i].agent, i, m, x, h, t, ok) IN
                Accepted(r) =>
                  /\ r.st.agents[i].lastReset = agents[i].lastReset
                  /\ r.st.agents[i].spentToday = agents[i].spentToday + x
           /\ \A k \in SubIds, h \in BOOLEAN, ok \in BOOLEAN :
                LET r == executeSubscription(S, i, k, h, t, ok) IN
                Accepted(r) =>
                  /\ r.st.agents[i].lastReset = agents[i].lastReset
                  /\ r.st.agents[i].spentToday =
                       agents[i].spentToday + subscriptions[i][k].amountPerPeriod
           /\ \A q \in LimitPairs :
                LET r == updateLimits(S, agents[i].owner, i, q[1], q[2], t) IN
                Accepted(r) =>
                  /\ r.st.agents[i].lastReset = agents[i].lastReset
                  /\ agents[i].spentToday > 0 => r.st.agents[i].spentToday > 0

\* A second pay went through in the window the first one was made in: the
\* window start is older than the pay and spentToday holds both amounts.
C10_Witness ==
  \E i \in Existing :
    /\ last = [op |-> "pay", err |-> "ok"]
    /\ agents[i].lastReset < now
    /\ now < agents[i].lastReset + OneDay
    /\ agents[i].spentToday = 2
    /\ agents[i].perTxLimit = 1
    /\ agents[i].dailyLimit = 2
    /\ tokBalances["shop"] = 2

\* The storage a direct payment of x by agent i to merchant m at time t leaves,
\* given the storage s1 the window check left: the ledger balance and the
\* custody pool less x, spentToday and the merchant's tokens plus x, the latch
\* free, and nothing else changed.
DirectPaid(s1, i, m, x) ==
  [s1 EXCEPT !.bal[i] = @ - x,
             !.agents[i].spentToday = @ + x,
             !.tok = [[@ EXCEPT ![Wallet] = @ - x] EXCEPT ![m] = @ + x],
             !.status = NOT_ENTERED]

\* C11 (as the code has it): a pay with an empty payload that returns leaves
\* the storage the window check left, with Balance[agentId] less the amount,
\* spentToday plus the amount and every other agent field as it was; the
\* custody pool holds less the amount and the merchant plus the amount when the
\* merchant is another address than the wallet, and the tokens do not move when
\* the merchant is the wallet itself.
C11_DirectPayEffect ==
  Live =>
    \A i \in Existing, m \in Holders, x \in AnyAmts, t \in now..(Uint64Mod - 1) :
      LET r == pay(S, agents[i].agent, i, m, x, FALSE, t, TRUE)
          s1 == resetIfNeeded(S, i, t) IN
      r.err = "ok" =>
        /\ r.st = DirectPaid(s1, i, m, x)
        /\ r.st.bal[i] = balances[i] - x
        /\ r.st.agents[i].spentToday = spentTodayView(S, i, t) + x
        /\ r.st.agents[i] = [s1.agents[i] EXCEPT !.spentToday = @ + x]
        /\ m # Wallet => /\ r.st.tok[m] = tokBalances[m] + x
                         /\ r.st.tok[Wallet] = tokBalances[Wallet] - x
        /\ m = Wallet => r.st.tok = tokBalances

\* A direct payment to the shop went through: the shop holds what the agent has
\* spent, and a balance is left.
C11_Witness ==
  \E i \in Existing :
    /\ last = [op |-> "pay", err |-> "ok"]
    /\ agents[i].spentToday > 0
    /\ tokBalances["shop"] = agents[i].spentToday
    /\ tokAllowances[<<Wallet, "shop">>] = 0
    /\ balances[i] > 0

\* C11 as stated: every pay with an empty payload that returns moves the amount
\* from the custody pool to the merchant.
C11_AsStated ==
  Live =>
    \A i \in Existing, m \in Holders, x \in AnyAmts :
      LET r == pay(S, agents[i].agent, i, m, x, FALSE, now, TRUE) IN
      r.err = "ok" =>
        /\ r.st.bal[i] = balances[i] - x
        /\ r.st.tok[m] = tokBalances[m] + x
        /\ r.st.tok[Wallet] = tokBalances[Wallet] - x

\* C12: a pay with a non-empty payload that reaches the merchant call hands
\* over with the merchant's allowance on the custody pool equal to exactly the
\* amount, whatever allowance was left from earlier payments, and with the
\* agent's balance and spentToday already debited; all through the callback,
\* what the merchant has pulled plus the allowance it has left is the amount,
\* and a pull for more than the allowance left is refused.
C12_CallbackAuthorization ==
  /\ Live =>
       \A i \in Existing, m \in Addrs, x \in AnyAmts :
         LET r == pay(S, agents[i].agent, i, m, x, TRUE, now, TRUE) IN
         r.err = "calling" =>
           /\ r.st.alw[<<Wallet, m>>] = x
           /\ r.st.bal[i] = balances[i] - x
           /\ r.st.agents[i].spentToday = spentTodayView(S, i, now) + x
           /\ r.st.tok = tokBalances
  /\ cb.active =>
       /\ tokAllowances[<<Wallet, cb.merchant>>] +
            (snap.tok[Wallet] - tokBalances[Wallet]) = cb.amount
       /\ balances[cb.agentId] = snap.bal[cb.agentId] - cb.amount
       /\ \A y \in AnyAmts :
            y > tokAllowances[<<Wallet, cb.merchant>>] =>
              tokTransferFrom(S, cb.merchant, Wallet, cb.merchant, y).err # "ok"

\* The merchant has just been invoked by a payment made while it still held an
\* allowance from an earlier one: its allowance is the new amount alone.
C12_Witness ==
  /\ cb.active
  /\ cb.steps = 0
  /\ cb.op = "pay"
  /\ snap.alw[<<Wallet, cb.merchant>>] > 0
  /\ tokAllowances[<<Wallet, cb.merchant>>] = cb.amount

\* C13: the latch is set exactly while a payment is inside its merchant
\* callback; while it is set, every deposit, withdraw, emergencyWithdraw, pay
\* and executeSubscription, by any caller on any agent id, is refused and leaves
\* the storage as it was (with ReentrantCall once the caller passes the access
\* check); and no guarded operation attempted inside a callback changes a
\* ledger balance, an agent, a subscription or the whitelist.
C13_ReentrancyGuard ==
  /\ [](cb.active <=> status = ENTERED)
  /\ []((Live /\ status = ENTERED) =>
         \A i \in AgentIds, c \in Addrs :
           /\ \A x \in Amts, ok \in BOOLEAN :
                /\ Failed(deposit(S, c, i, x, ok).err)
                /\ Failed(withdraw(S, c, i, x, ok).err)
                /\ Failed(emergencyWithdraw(S, c, i, ok).err)
                /\ (i \in Existing /\ c = agents[i].owner) =>
                     /\ deposit(S, c, i, x, ok) = Result(S, "ReentrantCall")
                     /\ withdraw(S, c, i, x, ok) = Result(S, "ReentrantCall")
                     /\ emergencyWithdraw(S, c, i, ok) = Result(S, "ReentrantCall")
           /\ \A m \in AddrsOrNull, x \in Amts, h \in BOOLEAN, ok \in BOOLEAN :
                /\ Failed(pay(S, c, i, m, x, h, now, ok).err)
                /\ (i \in Existing /\ c = agents[i].agent) =>
                     pay(S, c, i, m, x, h, now, ok) = Result(S, "ReentrantCall")
           /\ \A k \in SubIds, h \in BOOLEAN, ok \in BOOLEAN :
                /\ Failed(executeSubscription(S, i, k, h, now, ok).err)
                /\ i \in Existing =>
                     executeSubscription(S, i, k, h, now, ok) = Result(S, "ReentrantCall"))
  /\ [][(cb.active /\ cb'.active) =>
          /\ balances' = balances
          /\ agents' = agents
          /\ subscriptions' = subscriptions
          /\ merchantWhitelist' = merchantWhitelist
          /\ status' = ENTERED
          /\ last'.op \in Payments => Failed(last'.err)]_vars

\* Inside the callback of a payment by the first agent, the merchant, which owns
\* the second agent, tried to withdraw and was refused by the latch.
C13_Witness ==
  /\ cb.active
  /\ cb.agentId = 1
  /\ cb.merchant = "shop"
  /\ last = [op |-> "withdraw", err |-> "ReentrantCall"]
  /\ agents[2].owner = "shop"

\* C14: whenever no payment is inside its merchant callback the latch is in the
\* not-entered state; a guarded function called with the latch free leaves it
\* free when it returns and when it reverts, and a nested call refused by the
\* latch leaves it as the outer call set it.
C14_LatchCleared ==
  /\ ~cb.active => status = NOT_ENTERED
  /\ (Live /\ status = NOT_ENTERED) =>
       \A i \in AgentIds, c \in Addrs :
         /\ \A x \in Amts, ok \in BOOLEAN :
              /\ deposit(S, c, i, x, ok).st.status = NOT_ENTERED
              /\ withdraw(S, c, i, x, ok).st.status = NOT_ENTERED
              /\ emergencyWithdraw(S, c, i, ok).st.status = NOT_ENTERED
         /\ \A m \in Addrs, x \in Amts, ok \in BOOLEAN :
              pay(S, c, i, m, x, FALSE, now, ok).st.status = NOT_ENTERED
         /\ \A k \in SubIds, ok \in BOOLEAN :
              executeSubscription(S, i, k, FALSE, now, ok).st.status = NOT_ENTERED

\* A payment has failed in settlement after it took the latch, and the latch is
\* free.
C14_Witness ==
  /\ last.op \in Payments
  /\ last.err = "ExternalTransferFailed"
  /\ ~cb.active
  /\ status = NOT_ENTERED
  /\ \E i \in Existing : balances[i] > 0

\* C15: for an existing agent and an amount X > 0 its owner holds and has
\* approved to the wallet, deposit(agentId, X) returns, and withdraw(agentId, X)
\* right after it returns too and leaves Balance[agentId], every token balance
\* (the owner's and the custody pool's among them) and the rest of the storage
\* as they were before the deposit, the owner's allowance to the wallet less X;
\* the two events carry X, and the balance the Withdraw event reports is the
\* one before the deposit.
C15_DepositWithdrawRoundTrip ==
  (Live /\ status = NOT_ENTERED) =>
    \A i \in Existing, x \in AnyAmts \ {0} :
      LET o == agents[i].owner
          d == deposit(S, o, i, x, TRUE)
          w == withdraw(d.st, o, i, x, TRUE) IN
      (tokBalances[o] >= x /\ tokAllowances[<<o, Wallet>>] >= x) =>
        /\ d.err = "ok"
        /\ d.st.bal[i] = balances[i] + x
        /\ d.st.tok[o] = tokBalances[o] - x
        /\ d.st.tok[Wallet] = tokBalances[Wallet] + x
        /\ w.err = "ok"
        /\ w.st.bal = balances
        /\ w.st.tok = tokBalances
        /\ w.st = [S EXCEPT !.alw[<<o, Wallet>>] = @ - x]
        /\ DepositEvent(d.st, i, x).amount = WithdrawEvent(w.st, i, x).amount
        /\ DepositEvent(d.st, i, x).newBalance = balances[i] + x
        /\ WithdrawEvent(w.st, i, x).newBalance = balances[i]

\* The owner has deposited part of what it approved and taken it back: it holds
\* every token again, part of the approval is used up, the ledger balance is
\* zero and the custody pool is empty.
C15_Witness ==
  \E i \in Existing :
    /\ Live
    /\ status = NOT_ENTERED
    /\ tokBalances[agents[i].owner] = InitFunds
    /\ tokAllowances[<<agents[i].owner, Wallet>>] > 0
    /\ tokAllowances[<<agents[i].owner, Wallet>>] < InitFunds
    /\ balances[i] = 0
    /\ tokBalances[Wallet] = 0

\* What emergencyWithdraw(agentId) by the owner is to do in the current state:
\* return, zero the ledger balance, move exactly the prior balance from the
\* custody pool to the owner and leave everything else (agents and their
\* policies, whitelist, subscriptions, allowances) as it was.
Drained(i) ==
  LET o == agents[i].owner
      r == emergencyWithdraw(S, o, i, TRUE) IN
  /\ r.err = "ok"
  /\ r.st.bal[i] = 0
  /\ r.st.tok[o] = tokBalances[o] + balances[i]
  /\ r.st = [S EXCEPT !.bal[i] = 0,
                      !.tok[Wallet] = @ - balances[i],
                      !.tok[o] = @ + balances[i]]

C17_CreateAgent ==
  (Live /\ nextAgentId < MaxAgents) =>
    \A c \in Addrs, dl \in AnyAmts, ptl \in AnyAmts :
      /\ \A d \in Addrs :
           (dl > 0 /\ ptl > 0 /\ ptl <= dl) =>
             LET r == createAgent(S, c, d, dl, ptl, now)
                 id == nextAgentId + 1 IN
             /\ r.err = "ok"
             /\ r.st.nextAgentId = id
             /\ r.st.agents[id].owner = c
             /\ r.st.agents[id].agent = d
             /\ r.st.agents[id].active
             /\ r.st.agents[id].dailyLimit = dl
             /\ r.st.agents[id].perTxLimit = ptl
             /\ r.st.agents[id].spentToday = 0
             /\ r.st.agents[id].lastReset = now
             /\ r.st = [S EXCEPT !.nextAgentId = id, !.agents[id] = r.st.agents[id]]
      /\ createAgent(S, c, Null, dl, ptl, now) = Revert(S, "InvalidAddress")

\* An agent has just been created, after time has passed since construction:
\* its window starts now and nothing is spent.
C17_Witness ==
  /\ last = [op |-> "call", err |-> "ok"]
  /\ nextAgentId = 1
  /\ now > 1
  /\ agents[1].owner = "alice"
  /\ agents[1].agent = "bot"
  /\ agents[1].active
  /\ agents[1].spentToday = 0
  /\ agents[1].lastReset = now
  /\ balances[1] = 0

\* A call, made outside any callback, of executeSubscription that the wallet
\* accepted: it returned, or it reached the merchant's code.
SubscriptionExecuted ==
  /\ ~cb.active
  /\ last'.op = "executeSubscription"
  /\ last'.err \in {"ok", "calling"}

\* C18 (amended): an accepted executeSubscription sets the subscription's
\* nextExecutionAt to the current time plus periodSeconds, truncated to 64
\* bits, and does so before the payment pipeline is entered: the new value is
\* in place while the merchant is being called. Only the subscription that was
\* executed is touched, and only that field of it.
C18_NextExecutionAdvanced ==
  [][SubscriptionExecuted =>
       \E i \in Existing, k \in SubIds :
         LET sub == subscriptions[i][k] IN
         /\ sub.active /\ sub.merchant # Null /\ now >= sub.nextExecutionAt
         /\ subscriptions' = [subscriptions EXCEPT ![i][k].nextExecutionAt =
                                                     Uint64(now + sub.periodSeconds)]
         /\ (last'.err = "calling" => (cb'.active /\ status' = ENTERED))]_vars

\* A subscription has just been executed later than it was due: its next
\* execution is one period after the current time.
C18_Witness ==
  \E i \in Existing, k \in SubIds :
    /\ last = [op |-> "executeSubscription", err |-> "ok"]
    /\ subscriptions[i][k].active
    /\ subscriptions[i][k].periodSeconds = OneDay
    /\ now = MaxTime
    /\ subscriptions[i][k].nextExecutionAt = now + OneDay
    /\ agents[i].spentToday = 1
    /\ balances[i] = InitFunds - 1

\* C18 as stated: an accepted executeSubscription leaves nextExecutionAt at its
\* previous value plus periodSeconds (as a 64-bit value).
C18_AsStated ==
  [][SubscriptionExecuted =>
       \E i \in Existing, k \in SubIds :
         LET sub == subscriptions[i][k] IN
         /\ sub.active /\ sub.merchant # Null /\ now >= sub.nextExecutionAt
         /\ subscriptions' = [subscriptions EXCEPT ![i][k].nextExecutionAt =
                                Uint64(sub.nextExecutionAt + sub.periodSeconds)]]_vars

\* The subscription checks of executeSubscription pass: the subscription
\* exists, is active and is due.
Due(i, k) ==
  /\ subscriptions[i][k].merchant # Null
  /\ subscriptions[i][k].active
  /\ now >= subscriptions[i][k].nextExecutionAt

\* C19: executeSubscription gives every caller (the owner, the delegate, the
\* merchant, anyone else) the result it gives the delegate, and never fails
\* for who the caller is. On an existing agent it fails and leaves the storage
\* as it was when the subscription does not exist, is inactive or is not yet
\* due. When the subscription is due and no guarded operation is in progress,
\* its outcome is the one of the payment pipeline run for the stored merchant
\* and the stored amountPerPeriod, that is the outcome of the delegate paying
\* them with pay, with nextExecutionAt advanced: an accepted execution debits
\* the balance by amountPerPeriod and pays or authorizes the stored merchant.
C19_AnyoneExecutes ==
  Live =>
    \A i \in Existing, k \in SubIds, h \in BOOLEAN, c \in Addrs :
      LET sub == subscriptions[i][k]
          r == executeSubscriptionFrom(S, c, i, k, h, now, TRUE)
          q == pay(S, agents[i].agent, i, sub.merchant, sub.amountPerPeriod, h, now, TRUE) IN
      /\ r = executeSubscriptionFrom(S, agents[i].agent, i, k, h, now, TRUE)
      /\ r.err \notin {"NotAgent", "NotAgentOwner"}
      /\ ~Due(i, k) => (Failed(r.err) /\ r.st = S)
      /\ (~Due(i, k) /\ status = NOT_ENTERED) =>
           r.err \in {"SubscriptionNotFound", "SubscriptionInactive", "TooEarly"}
      /\ (Due(i, k) /\ status = NOT_ENTERED) =>
           /\ r.err = q.err
           /\ Failed(r.err) => r.st = S
           /\ Accepted(r) =>
                /\ r.st = [q.st EXCEPT !.subs[i][k].nextExecutionAt =
                                         Uint64(now + sub.periodSeconds)]
                /\ r.st.bal[i] = balances[i] - sub.amountPerPeriod
                /\ r.err = "ok" =>
                     r.st.tok[sub.merchant] = tokBalances[sub.merchant] + sub.amountPerPeriod
                /\ r.err = "calling" =>
                     r.st.alw[<<Wallet, sub.merchant>>] = sub.amountPerPeriod

\* A due subscription of an agent whose owner is her own delegate: the delegate
\* "bot" of other runs is a stranger here and "shop" is the merchant; one
\* execution has been paid and the next is due again.
C19_Witness ==
  \E i \in Existing, k \in SubIds :
    /\ Live
    /\ status = NOT_ENTERED
    /\ agents[i].owner = "alice"
    /\ agents[i].agent = "alice"
    /\ Due(i, k)
    /\ subscriptions[i][k].merchant = "shop"
    /\ tokBalances["shop"] = subscriptions[i][k].amountPerPeriod
    /\ balances[i] >= subscriptions[i][k].amountPerPeriod

\* What agent i's successful payments debited at the times in T.
RECURSIVE DebitedIn(_, _)
DebitedIn(i, T) ==
  IF T = {} THEN 0
  ELSE LET t == CHOOSE u \in T : TRUE IN debits.log[i][t] + DebitedIn(i, T \ {t})

\* A period of 24 hours starting at t: the times from t up to, not including,
\* t + 24h.
DayFrom(t) == {u \in 0..MaxTime : t <= u /\ u < t + OneDay}
\* The times of agent i's current daily window.
SinceReset(i) == {u \in 0..MaxTime : agents[i].lastReset <= u}
\* What a payment whose merchant is being called has debited so far.
InFlight(i) == IF cb.active /\ cb.agentId = i THEN cb.amount ELSE 0

\* C20 (amended): the daily cap is a fixed window, not a rolling one. With an
\* agent's limits left unchanged, what its successful payments (pay and
\* executeSubscription together) debited since the start of its current daily
\* window is exactly spentToday (less the payment in flight, if any) and never
\* exceeds dailyLimit; every one of them was made less than 24 hours after the
\* window's start; and the total debited in any period of 24 hours never
\* exceeds twice dailyLimit.
C20_DailyWindowCap ==
  debits.on =>
    \A i \in Existing :
      /\ DebitedIn(i, SinceReset(i)) + InFlight(i) = agents[i].spentToday
      /\ DebitedIn(i, SinceReset(i)) <= agents[i].dailyLimit
      /\ \A u \in 0..MaxTime :
           (debits.log[i][u] > 0 /\ u >= agents[i].lastReset)
             => u < agents[i].lastReset + OneDay
      /\ \A t \in 0..MaxTime : DebitedIn(i, DayFrom(t)) <= 2 * agents[i].dailyLimit

\* The agent spent its whole daily limit at the end of one window and again
\* at the start of the next, less than 24 hours later.
C20_Witness ==
  \E i \in Existing, t \in 0..(MaxTime - 1) :
    /\ debits.on
    /\ ~cb.active
    /\ debits.log[i][t] = agents[i].dailyLimit
    /\ debits.log[i][t + 1] = agents[i].dailyLimit
    /\ agents[i].lastReset = t + 1
    /\ agents[i].spentToday = agents[i].dailyLimit

\* C20 as stated: the total debited by an agent's successful payments in any
\* period of 24 hours never exceeds dailyLimit.
C20_AsStated ==
  debits.on =>
    \A i \in Existing, t \in 0..MaxTime :
      DebitedIn(i, DayFrom(t)) <= agents[i].dailyLimit

\* C21: within a daily window, what an agent's successful payments debited
\* since the window started never exceeds the largest dailyLimit the agent has
\* had during that window, whatever limit updates came in between.
C21_WindowDebitsWithinLargestLimit ==
  debits.on =>
    \A i \in Existing : DebitedIn(i, SinceReset(i)) <= debits.peak[i]

\* C22: POST /agent/pay with a well-formed body, for an agentId the relay holds
\* in its agentStore (and a payment the contract accepts from the stored
\* account), is answered with the hash and the receipt status of the pay
\* transaction the relay sent.
C22_AgentPayExecutes ==
  (relay.resp.route = "agentPay" /\ relay.resp.wellFormed /\ relay.resp.held
     /\ relay.resp.payable)
    => (relay.resp.status = 200 /\ relay.resp.body = "transactionHash")

\* What the payment in progress and the payments nested in it have debited
\* from the agent being paid from, and what has left the custody pool, since
\* the outer payment was called.
DebitedSinceCall == snap.bal[cb.agentId] - balances[cb.agentId]
PoolOutflow == snap.tok[Wallet] - tokBalances[Wallet]
\* spentToday of the agent as the outer payment found it, its window check done.
SpentAtCall ==
  IF now >= snap.agents[cb.agentId].lastReset + OneDay THEN 0
  ELSE snap.agents[cb.agentId].spentToday

\* C23: while a merchant is being called back the balance debit and the
\* spentToday increment of the payment are in storage; and with nested pay and
\* executeSubscription entries let through instead of rejected, spentToday
\* never exceeds dailyLimit, spentToday has grown by exactly what was debited,
\* the debits never exceed the balance the agent had when the outer payment
\* was called, and what has left the custody pool plus what the merchant may
\* still pull is exactly what was debited.
C23_EffectsBeforeInteractions ==
  /\ \A i \in Existing : agents[i].spentToday <= agents[i].dailyLimit
  /\ cb.active =>
       /\ balances[cb.agentId] <= snap.bal[cb.agentId]
       /\ DebitedSinceCall >= cb.amount
       /\ DebitedSinceCall <= snap.bal[cb.agentId]
       /\ agents[cb.agentId].spentToday = SpentAtCall + DebitedSinceCall
       /\ PoolOutflow + tokAllowances[<<Wallet, cb.merchant>>] = DebitedSinceCall

\* Inside the callback of a payment of 1 a nested payment of 1 has been
\* accepted: 2 debited, the daily limit reached.
C23_Witness ==
  /\ cb.active
  /\ cb.steps > 0
  /\ last = [op |-> "pay", err |-> "ok"]
  /\ DebitedSinceCall = 2
  /\ cb.amount = 1
  /\ agents[cb.agentId].spentToday = agents[cb.agentId].dailyLimit

\* A step taken by the merchant's code while the latch is set.
InsideCallback == cb.active /\ cb'.active

\* C24 (amended): while the latch is set (inside a merchant callback) no
\* operation changes any agent's balance or raises any agent's spentToday:
\* the guarded entry points are all refused. The unguarded owner operations
\* still run there: updateLimits can lower spentToday (clamp or window reset)
\* and setMerchantWhitelist can change whitelist entries, and whatever changes
\* of an existing agent's record or whitelist is changed by that agent's owner.
C24_MutationsWhileLatched ==
  [][InsideCallback =>
       /\ balances' = balances
       /\ status' = ENTERED
       /\ \A i \in Existing :
            /\ agents'[i].spentToday <= agents[i].spentToday
            /\ (agents'[i] # agents[i] \/ merchantWhitelist'[i] # merchantWhitelist[i])
                 => cb.merchant = agents[i].owner]_vars

\* The owner, called back as the merchant of a payment of 2, has lowered the
\* limits: spentToday is clamped below what the payment in progress debited.
C24_Witness ==
  /\ cb.active
  /\ cb.steps > 0
  /\ cb.merchant = agents[cb.agentId].owner
  /\ last = [op |-> "call", err |-> "ok"]
  /\ cb.amount = 2
  /\ agents[cb.agentId].spentToday = 1
  /\ agents[cb.agentId].dailyLimit = 1

\* C24 as stated: no step taken while the latch is set changes any agent's
\* balance, spentToday or whitelist entries.
C24_AsStated ==
  [][InsideCallback =>
       /\ balances' = balances
       /\ \A i \in AgentIds : agents'[i].spentToday = agents[i].spentToday
       /\ merchantWhitelist' = merchantWhitelist]_vars

\* spentToday once a due window reset is applied at the current time.
SpentAfterDueReset(i) == IF now >= agents[i].lastReset + OneDay THEN 0 ELSE agents[i].spentToday

\* C25: in every reachable state, updateLimits by the owner with valid limits
\* applies a due window reset first (spentToday 0, window restarted now),
\* stores the new limits, and clamps spentToday down to newDailyLimit when it
\* exceeds it; it never increases spentToday, changes no balance and leaves the
\* active flag, the owner and the delegate alone, and with a dailyLimit not
\* below the current one spentToday is left as the due reset left it.
C25_UpdateLimits ==
  \A i \in Existing, dl \in AnyAmts, ptl \in AnyAmts :
    (dl > 0 /\ ptl > 0 /\ ptl <= dl) =>
      LET r == updateLimits(S, agents[i].owner, i, dl, ptl, now)
          a == agents[i]
          b == r.st.agents[i]
          due == now >= a.lastReset + OneDay
          base == SpentAfterDueReset(i) IN
      /\ r.err = "ok"
      /\ b.dailyLimit = dl
      /\ b.perTxLimit = ptl
      /\ b.lastReset = IF due THEN Uint64(now) ELSE a.lastReset
      /\ b.spentToday = IF base > dl THEN dl ELSE base
      /\ b.spentToday <= a.spentToday
      /\ b.active = a.active
      /\ b.owner = a.owner
      /\ b.agent = a.agent
      /\ r.st.bal = balances
      /\ dl >= a.dailyLimit => b.spentToday = base
      /\ r.st = [S EXCEPT !.agents[i] = b]

\* updateLimits has just clamped: 2 were debited in the current window and the
\* counter stands at the tightened dailyLimit of 1.
C25_Witness ==
  /\ last = [op |-> "call", err |-> "ok"]
  /\ 1 \in Existing
  /\ DebitedIn(1, SinceReset(1)) = 2
  /\ agents[1].dailyLimit = 1
  /\ agents[1].spentToday = 1

RECURSIVE SumOver(_, _)
SumOver(f, D) ==
  IF D = {} THEN 0
  ELSE LET d == CHOOSE e \in D : TRUE IN f[d] + SumOver(f, D \ {d})

\* What the custody pool holds beyond the agents' ledger balances, and the
\* allowances outstanding on it.
PoolSurplus == tokBalances[Wallet] - SumOver(balances, AgentIds)
Outstanding == SumOver([m \in Addrs |-> tokAllowances[<<Wallet, m>>]], Addrs)

RolledBack == cb.active /\ ~cb'.active /\ Failed(last'.err)

\* C27: the agents that exist are exactly those with ids 1..nextAgentId (id 0
\* never exists); a createAgent that fails leaves the counter and every record
\* as they were; every step that is not the rollback of a failed payment
\* leaves the counter or advances it by one, keeps the owner of every existing
\* agent (no agent is deleted), and when it advances the counter writes the
\* new id's record, so far unused, and no existing record; the rollback of a
\* failed payment restores the counter and the records the payment started from.
C27_AgentIds ==
  /\ [](/\ Existing = 1..nextAgentId
        /\ agents[0].owner = Null
        /\ \A c \in Addrs, dl \in AnyAmts, ptl \in AnyAmts :
             /\ createAgent(S, c, Null, dl, ptl, now) = Revert(S, "InvalidAddress")
             /\ ~validateLimits(dl, ptl) =>
                  createAgent(S, c, "bot", dl, ptl, now) = Revert(S, "InvalidLimits"))
  /\ [][IF RolledBack
        THEN nextAgentId' = snap.nextAgentId /\ agents' = snap.agents
        ELSE /\ nextAgentId' \in {nextAgentId, nextAgentId + 1}
             /\ \A i \in Existing : agents'[i].owner = agents[i].owner
             /\ Failed(last'.err) => (nextAgentId' = nextAgentId /\ agents' = agents)
             /\ nextAgentId' = nextAgentId + 1 =>
                  /\ agents[nextAgentId'].owner = Null
                  /\ agents'[nextAgentId'].owner # Null
                  /\ \A i \in AgentIds \ {nextAgentId'} : agents'[i] = agents[i]]_vars

\* A merchant called back by a payment of the first agent has created the
\* second one: it has the next id and the first agent's record is as the
\* payment left it.
C27_Witness ==
  /\ cb.active
  /\ cb.steps = 1
  /\ snap.nextAgentId = 1
  /\ nextAgentId = 2
  /\ agents[2].owner = cb.merchant
  /\ agents[1].owner = "alice"
  /\ agents[1] = [snap.agents[1] EXCEPT !.spentToday = cb.amount]

\* The token would let the wallet pull amount from owner: the owner holds it
\* and has pre-authorized the wallet for it.
Pullable(owner, amount) == tokBalances[owner] >= amount /\ tokAllowances[<<owner, Wallet>>] >= amount

\* C28: in every reachable state with the latch free, a deposit by the owner of
\* an existing agent fails with InvalidAmount when amount is 0; with amount > 0
\* it returns exactly when the pull of amount from the owner succeeds (the
\* ledger balance staying within its width), whatever the policy's active
\* flag, and then Balance[agentId] has grown by exactly amount, the owner holds
\* amount less and the custody pool amount more; when the pull fails (too
\* little held, too little pre-authorized, or the token refusing) the call
\* fails and the ledger and both contracts' storage are as before the call.
C28_Deposit ==
  (Live /\ status = NOT_ENTERED) =>
    \A i \in Existing, x \in {0} \cup AnyAmts, ok \in BOOLEAN :
      LET o == agents[i].owner
          r == deposit(S, o, i, x, ok)
          pulled == Pullable(o, x) /\ ok IN
      /\ x = 0 => r = Revert(S, "InvalidAmount")
      /\ (x > 0 /\ ~pulled) => (Failed(r.err) /\ r.st = S)
      /\ (x > 0 /\ pulled /\ balances[i] + x <= MaxUint) => r.err = "ok"
      /\ r.err = "ok" =>
           /\ x > 0 /\ pulled
           /\ r.st.bal = [balances EXCEPT ![i] = @ + x]
           /\ r.st.tok = [tokBalances EXCEPT ![o] = @ - x, ![Wallet] = @ + x]
           /\ r.st.alw = [tokAllowances EXCEPT ![<<o, Wallet>>] = @ - x]
           /\ r.st.agents = agents
           /\ r.st.status = NOT_ENTERED

\* A deposit into a paused agent has just failed because the owner had not
\* pre-authorized the wallet: nothing is held by the wallet or on the ledger.
C28_Witness ==
  /\ last = [op |-> "deposit", err |-> "ExternalTransferFailed"]
  /\ 1 \in Existing
  /\ ~agents[1].active
  /\ tokAllowances[<<agents[1].owner, Wallet>>] = 0
  /\ tokBalances[agents[1].owner] = InitFunds
  /\ tokBalances[Wallet] = 0
  /\ balances[1] = 0

\* The subscriptions of agent i that exist.
SubsOf(i) == {k \in SubIds : subscriptions[i][k].merchant # Null}

\* C29: in every reachable state each agent's subscriptions are exactly those
\* with ids 1..nextSubscriptionId of that agent, and createSubscription on an
\* existing agent returns exactly when the caller is the owner, the merchant is
\* non-null and whitelisted for the agent at that time, amountPerPeriod is not 0
\* and periodSeconds is at least the minimum; the owner gets MerchantNotAllowed
\* for a non-null merchant off the whitelist and InvalidAmount for a zero
\* amount or a short period; a failed creation leaves the storage (the
\* agent's counter too) as it was; a successful one writes only the agent's
\* counter, advanced by one, and the so far unused subscription of that id:
\* active, with the merchant, amount and period given, and due at
\* firstExecutionAt, or at the current time when firstExecutionAt is 0.
C29_CreateSubscription ==
  /\ \A i \in AgentIds : SubsOf(i) = 1..nextSubscriptionId[i]
  /\ Live =>
       \A c \in Addrs, i \in Existing, m \in AddrsOrNull, x \in Amts, p \in 0..OneDay,
         f \in 0..MaxTime :
         nextSubscriptionId[i] < MaxSubs =>
           LET r == createSubscription(S, c, i, m, x, p, f, now)
               k == nextSubscriptionId[i] + 1
               owned == c = agents[i].owner
               listed == m # Null /\ merchantWhitelist[i][m]
               sub == [merchant |-> m, amountPerPeriod |-> x, periodSeconds |-> p,
                       nextExecutionAt |-> IF f = 0 THEN Uint64(now) ELSE f,
                       active |-> TRUE] IN
           /\ r.err = "ok" <=> (owned /\ listed /\ x # 0 /\ p >= MinPeriod)
           /\ (owned /\ m # Null /\ ~listed) => r.err = "MerchantNotAllowed"
           /\ (owned /\ listed /\ (x = 0 \/ p < MinPeriod)) => r.err = "InvalidAmount"
           /\ Failed(r.err) => r.st = S
           /\ r.err = "ok" =>
                /\ subscriptions[i][k] = NoSub
                /\ r.st.subs[i][k] = sub
                /\ r.st = [S EXCEPT !.nextSubId[i] = k, !.subs[i][k] = sub]

\* The first agent has just been given its second subscription, due at the
\* time of its creation, and the second agent's only subscription has id 1.
C29_Witness ==
  /\ last = [op |-> "call", err |-> "ok"]
  /\ now > 0
  /\ nextSubscriptionId[1] = 2
  /\ nextSubscriptionId[2] = 1
  /\ subscriptions[1][2].nextExecutionAt = now
  /\ subscriptions[1][2].active
  /\ subscriptions[1][1].nextExecutionAt = OneDay
  /\ subscriptions[2][1].merchant = "shop"

\* C30: in every reachable state with the latch free, executing a due, active
\* subscription gives the outcome pay by the delegate gives for the
\* subscription's merchant and amountPerPeriod in that state: PolicyInactive
\* when the policy is paused, else MerchantNotAllowed when the merchant is not
\* on the whitelist now, else PerTxLimitExceeded when amountPerPeriod exceeds
\* the perTxLimit now, else DailyLimitExceeded when the day's spentToday plus
\* amountPerPeriod exceeds dailyLimit (an arithmetic panic, as in pay, when
\* the sum does not fit the word), else InsufficientBalance when the
\* balance is below amountPerPeriod; a failure leaves the storage as it was,
\* and a success adds amountPerPeriod to the agent's spentToday and leaves the
\* agent, the ledger and the token as pay leaves them.
C30_ExecutionAuthorizedAsPay ==
  (Live /\ status = NOT_ENTERED) =>
    \A i \in Existing, k \in SubIds, h \in BOOLEAN, ok \in BOOLEAN :
      LET sub == subscriptions[i][k]
          amt == sub.amountPerPeriod
          p == agents[i]
          spent == spentTodayView(S, i, now)
          r == executeSubscription(S, i, k, h, now, ok)
          q == pay(S, p.agent, i, sub.merchant, amt, h, now, ok) IN
      (sub.merchant # Null /\ sub.active /\ now >= sub.nextExecutionAt) =>
        /\ r.err = q.err
        /\ r.err = IF ~p.active THEN "PolicyInactive"
                   ELSE IF ~merchantWhitelist[i][sub.merchant] THEN "MerchantNotAllowed"
                   ELSE IF amt > p.perTxLimit THEN "PerTxLimitExceeded"
                   ELSE IF spent + amt > MaxUint THEN "Panic"
                   ELSE IF spent + amt > p.dailyLimit THEN "DailyLimitExceeded"
                   ELSE IF balances[i] < amt THEN "InsufficientBalance"
                   ELSE IF ~ok THEN "ExternalTransferFailed"
                   ELSE IF h THEN "calling" ELSE "ok"
        /\ Failed(r.err) => r.st = S
        /\ Accepted(r) =>
             /\ r.st.agents[i].spentToday = spent + amt
             /\ r.st.agents = q.st.agents
             /\ r.st.bal = q.st.bal
             /\ r.st.tok = q.st.tok
             /\ r.st.alw = q.st.alw

\* An execution has just been refused because the merchant was taken off the
\* whitelist after the subscription was created; the policy is active.
C30_Witness ==
  /\ last = [op |-> "executeSubscription", err |-> "MerchantNotAllowed"]
  /\ subscriptions[1][1].active
  /\ subscriptions[1][1].merchant = "shop"
  /\ ~merchantWhitelist[1]["shop"]
  /\ agents[1].active
  /\ balances[1] >= subscriptions[1][1].amountPerPeriod

\* The times a call can be made at from the current state on.
Later == now..(MaxTime + OneDay)

\* C31: in every reachable state and at every time from now on, the spentToday
\* accessor of an existing agent returns 0 when the time is 24 hours or more
\* past lastReset and the stored spentToday otherwise, which is the counter the
\* window reset of the payment pipeline leaves at that time: a pay by the
\* delegate at that time that passes the earlier checks, the sum fitting the
\* word, fails with DailyLimitExceeded exactly when the value returned plus
\* the amount exceeds dailyLimit, and a pay that returns leaves spentToday at
\* the value returned plus the amount.
C31_SpentTodayAccessor ==
  \A i \in Existing, t \in Later :
    LET v == spentTodayView(S, i, t)
        p == agents[i] IN
    /\ v = IF t >= p.lastReset + OneDay THEN 0 ELSE p.spentToday
    /\ v = resetIfNeeded(S, i, t).agents[i].spentToday
    /\ (Live /\ status = NOT_ENTERED) =>
         \A x \in 1..MaxAmt :
           LET r == pay(S, p.agent, i, "shop", x, FALSE, t, TRUE) IN
           /\ (p.active /\ merchantWhitelist[i]["shop"] /\ x <= p.perTxLimit
                 /\ v + x <= MaxUint) =>
                (r.err = "DailyLimitExceeded" <=> v + x > p.dailyLimit)
           /\ r.err = "ok" => r.st.agents[i].spentToday = v + x

\* A window reset is due and not yet applied: the stored counter still holds
\* what was spent, and the accessor returns 0.
C31_Witness ==
  /\ 1 \in Existing
  /\ agents[1].spentToday > 0
  /\ now >= agents[1].lastReset + OneDay
  /\ spentTodayView(S, 1, now) = 0

\* C32: in every reachable state, setAgentAddress on an existing agent returns
\* exactly for the owner with a non-null delegate (InvalidAddress for the
\* owner with a null one, NotAgentOwner for anyone else, the storage left as it
\* was) and then writes the delegate alone: owner, policy, balances, whitelist
\* and subscriptions are as before; after it every pay by any other caller,
\* the previous delegate included, fails with NotAgent, and every pay by the new
\* delegate gets the outcome the previous delegate would have got; and in
\* every step that changes an agent's delegate the storage becomes what the
\* owner's setAgentAddress leaves.
C32_DelegateRotation ==
  /\ [](Live =>
         \A i \in Existing, c \in Addrs, a \in AddrsOrNull :
           LET r == setAgentAddress(S, c, i, a)
               old == agents[i].agent IN
           /\ r.err = "ok" <=> (c = agents[i].owner /\ a # Null)
           /\ (c = agents[i].owner /\ a = Null) => r = Revert(S, "InvalidAddress")
           /\ c # agents[i].owner => r = Revert(S, "NotAgentOwner")
           /\ r.err = "ok" =>
                /\ r.st = [S EXCEPT !.agents[i].agent = a]
                /\ \A d \in Addrs, m \in AddrsOrNull, x \in Amts, h \in BOOLEAN :
                     LET q == pay(r.st, d, i, m, x, h, now, TRUE) IN
                     /\ d # a => q.err = "NotAgent"
                     /\ d = a => /\ q.err # "NotAgent"
                                 /\ q.err = pay(S, old, i, m, x, h, now, TRUE).err)
  /\ [][\A i \in Existing :
          agents'[i].agent # agents[i].agent =>
            S' = setAgentAddress(S, agents[i].owner, i, agents'[i].agent).st]_vars

\* The owner, who was her own delegate, has handed the agent to "bot", and her
\* next pay has just been refused at the delegate gate.
C32_Witness ==
  /\ last = [op |-> "pay", err |-> "NotAgent"]
  /\ 1 \in Existing
  /\ agents[1].owner = "alice"
  /\ agents[1].agent = "bot"
  /\ balances[1] > 0
  /\ merchantWhitelist[1]["shop"]

\* C33: in every reachable state, setMerchantWhitelist by the owner of an
\* existing agent is rejected with InvalidAddress for a null merchant and
\* otherwise returns with that agent's entry for that merchant set to the
\* value given and nothing else changed; the same call repeated leaves the
\* storage the first call left; with allowed = false, in the storage it leaves
\* no pay and no executeSubscription to that merchant is accepted, and each
\* fails with MerchantNotAllowed once it reaches the whitelist check (the
\* delegate calling with a non-zero amount, or a due active subscription, the
\* latch free and the policy active); with allowed = true no pay to that
\* merchant fails with MerchantNotAllowed.
C33_SetMerchantWhitelist ==
  Live =>
    \A i \in Existing, m \in AddrsOrNull, a \in BOOLEAN :
      LET o == agents[i].owner
          r == setMerchantWhitelist(S, o, i, m, a)
          gated == status = NOT_ENTERED /\ agents[i].active IN
      IF m = Null THEN r = Revert(S, "InvalidAddress")
      ELSE
        /\ r = Result([S EXCEPT !.wl[i][m] = a], "ok")
        /\ setMerchantWhitelist(r.st, o, i, m, a) = r
        /\ \A x \in 1..MaxAmt, h \in BOOLEAN :
             LET q == pay(r.st, agents[i].agent, i, m, x, h, now, TRUE) IN
             IF a THEN q.err # "MerchantNotAllowed"
             ELSE /\ ~Accepted(q)
                  /\ gated => q = Result(r.st, "MerchantNotAllowed")
        /\ \A k \in SubIds, h \in BOOLEAN :
             LET sub == subscriptions[i][k]
                 q == executeSubscription(r.st, i, k, h, now, TRUE) IN
             (~a /\ sub.merchant = m) =>
               /\ ~Accepted(q)
               /\ (gated /\ sub.active /\ now >= sub.nextExecutionAt) =>
                    q = Result(r.st, "MerchantNotAllowed")

\* The merchant of an existing subscription was taken off the whitelist, and a
\* pay to it by the delegate of the active, funded agent has just been refused.
C33_Witness ==
  /\ last = [op |-> "pay", err |-> "MerchantNotAllowed"]
  /\ subscriptions[1][1].merchant = "shop"
  /\ ~merchantWhitelist[1]["shop"]
  /\ agents[1].active
  /\ balances[1] > 0

\* The first condition of the order a pay by sender violates in the current
\* state, or "none".
FirstViolated(sender, i, m, x) ==
  IF ~agentExists(S, i) THEN "AgentNotFound"
  ELSE IF agents[i].agent # sender THEN "NotAgent"
  ELSE IF status = ENTERED THEN "ReentrantCall"
  ELSE IF m = Null THEN "InvalidAddress"
  ELSE IF x = 0 THEN "InvalidAmount"
  ELSE IF ~agents[i].active THEN "PolicyInactive"
  ELSE IF ~merchantWhitelist[i][m] THEN "MerchantNotAllowed"
  ELSE IF x > agents[i].perTxLimit THEN "PerTxLimitExceeded"
  ELSE IF spentTodayView(S, i, now) + x > agents[i].dailyLimit THEN "DailyLimitExceeded"
  ELSE IF balances[i] < x THEN "InsufficientBalance"
  ELSE "none"

\* C34: in every reachable state, a pay that violates one or more of the
\* conditions fails with the error of the first one violated in the order
\* AgentNotFound, NotAgent, reentrant entry, InvalidAddress, InvalidAmount,
\* PolicyInactive, MerchantNotAllowed, PerTxLimitExceeded, DailyLimitExceeded,
\* InsufficientBalance, and a pay that violates none is accepted.
C34_PayErrorPrecedence ==
  Live =>
    \A c \in Addrs, i \in AgentIds, m \in Merchants, x \in 0..MaxUint, h \in BOOLEAN :
      LET r == pay(S, c, i, m, x, h, now, TRUE)
          e == FirstViolated(c, i, m, x) IN
      IF e = "none" THEN Accepted(r) ELSE r.err = e

Of(st, B) == [agent |-> st.agents[B], bal |-> st.bal[B], wl |-> st.wl[B], subs |-> st.subs[B], nextSubId |-> st.nextSubId[B]]
\* The storage st holds for every existing agent other than A what the current
\* storage holds.
OthersKept(st, A) == \A B \in Existing \ {A} : Of(st, B) = Of(S, B)

\* C36: in every reachable state, every operation called for an agent id A by
\* any caller, returning, reverting or handing over to the merchant, leaves
\* the record with its policy, the balance, the whitelist entries and the
\* subscriptions of every other existing agent as they are, and createAgent
\* leaves those of every existing agent; the return of a merchant callback
\* changes the latch alone, and its failure restores the storage from before
\* the payment.
C36_AgentIsolation ==
  /\ [](Live =>
         /\ \A A \in 1..MaxAgents, c \in Addrs :
              /\ \A m \in AddrsOrNull :
                   /\ OthersKept(setAgentAddress(S, c, A, m).st, A)
                   /\ \A b \in BOOLEAN : OthersKept(setMerchantWhitelist(S, c, A, m, b).st, A)
                   /\ \A x \in Amts, h \in BOOLEAN :
                        OthersKept(pay(S, c, A, m, x, h, now, TRUE).st, A)
                   /\ nextSubscriptionId[A] < MaxSubs =>
                        OthersKept(createSubscription(S, c, A, m, 1, MinPeriod, 0, now).st, A)
              /\ \A x \in Amts, ok \in BOOLEAN :
                   /\ OthersKept(deposit(S, c, A, x, ok).st, A)
                   /\ OthersKept(withdraw(S, c, A, x, ok).st, A)
                   /\ OthersKept(emergencyWithdraw(S, c, A, ok).st, A)
                   /\ \A y \in Amts : OthersKept(updateLimits(S, c, A, x, y, now).st, A)
              /\ \A b \in BOOLEAN :
                   /\ OthersKept(setPolicyActive(S, c, A, b).st, A)
                   /\ \A k \in SubIds : OthersKept(setSubscriptionStatus(S, c, A, k, b).st, A)
              /\ \A k \in SubIds, h \in BOOLEAN :
                   OthersKept(executeSubscription(S, A, k, h, now, TRUE).st, A)
         /\ nextAgentId < MaxAgents =>
              \A c \in Addrs, d \in AddrsOrNull, x \in Amts, y \in Amts :
                OthersKept(createAgent(S, c, d, x, y, now).st, 0))
  /\ [][(cb.active /\ ~cb'.active) => (S' = exitGuard(S) \/ S' = snap)]_vars

\* Both agents have a whitelist entry and a subscription, the second holds a
\* balance and has spent nothing, and the first agent has just paid.
C36_Witness ==
  /\ last = [op |-> "pay", err |-> "ok"]
  /\ agents[1].spentToday = 2
  /\ agents[2].spentToday = 0
  /\ balances[2] > 0
  /\ merchantWhitelist[2]["alice"]
  /\ nextSubscriptionId[1] = 1
  /\ nextSubscriptionId[2] = 1

\* The storages a debit of agent i can leave: those of a withdraw or an
\* emergencyWithdraw by the owner, of a pay by the current delegate, and of the
\* execution of an existing subscription that is active and due.
DebitsOf(i) ==
  {withdraw(S, agents[i].owner, i, x, TRUE).st : x \in Amts}
    \cup {emergencyWithdraw(S, agents[i].owner, i, TRUE).st}
    \cup {pay(S, agents[i].agent, i, m, x, h, now, TRUE).st :
            m \in Addrs, x \in Amts, h \in BOOLEAN}
    \cup {executeSubscription(S, i, k, h, now, TRUE).st :
            k \in {j \in SubsOf(i) : subscriptions[i][j].active
                                     /\ now >= subscriptions[i][j].nextExecutionAt},
            h \in BOOLEAN}

\* C37: no step changes the owner of an existing agent, and every step that
\* lowers an agent's ledger balance leaves the storage of a withdraw or
\* emergencyWithdraw by that owner, of a pay by the agent's current delegate,
\* or of the execution of an active, due subscription of the agent; in every
\* reachable state, whoever owns the wallet contract, a withdraw or
\* emergencyWithdraw by anyone but the agent's owner and a pay by anyone but
\* the current delegate fail, only the owner can create a subscription, the
\* execution of a subscription that is paused or not yet due fails,
\* transferOwnership leaves every agent and balance alone, and what the owner
\* withdraws goes to the owner.
C37_OnlyAuthorizedDebits ==
  /\ [][\A i \in Existing :
          /\ agents'[i].owner = agents[i].owner
          /\ balances'[i] < balances[i] => S' \in DebitsOf(i)]_vars
  /\ [](Live =>
         \A i \in Existing, c \in Addrs :
           /\ \A x \in Amts :
                LET w == withdraw(S, c, i, x, TRUE) IN
                /\ c # agents[i].owner => w = Revert(S, "NotAgentOwner")
                /\ w.err = "ok" => w.st.tok[c] = tokBalances[c] + x
           /\ c # agents[i].owner =>
                /\ emergencyWithdraw(S, c, i, TRUE) = Revert(S, "NotAgentOwner")
                /\ \A m \in Addrs :
                     Failed(createSubscription(S, c, i, m, 1, MinPeriod, 0, now).err)
           /\ c # agents[i].agent =>
                \A m \in Addrs, x \in Amts, h \in BOOLEAN :
                  pay(S, c, i, m, x, h, now, TRUE) = Revert(S, "NotAgent")
           /\ \A k \in SubIds, h \in BOOLEAN :
                (~subscriptions[i][k].active \/ now < subscriptions[i][k].nextExecutionAt) =>
                  Failed(executeSubscription(S, i, k, h, now, TRUE).err)
           /\ \A n \in AddrsOrNull :
                LET r == transferOwnership(S, c, n) IN
                /\ r.st.agents = agents
                /\ r.st.bal = balances
                /\ r.err = "ok" <=> (c = _owner /\ n # Null))

\* The wallet contract has passed to another address than the agent's owner,
\* and a withdraw from the funded agent by someone else than its owner has just
\* been refused.
C37_Witness ==
  /\ last = [op |-> "withdraw", err |-> "NotAgentOwner"]
  /\ 1 \in Existing
  /\ _owner # Deployer
  /\ _owner # agents[1].owner
  /\ _owner # agents[1].agent
  /\ balances[1] > 0

\* C38: in every reachable state what the custody pool holds beyond the
\* agents' ledger balances is covered by the authorizations outstanding on the
\* pool: every amount debited by a successful callback payment has been pulled
\* by the merchant or can still be pulled by it.
C38_NoStrandedFunds ==
  Live => PoolSurplus <= Outstanding

\* C39: in every reachable state, once executeSubscription has succeeded at the
\* current time, the same subscription cannot be executed successfully at any
\* time before the current time plus its periodSeconds, whatever period
\* createSubscription accepted.
C39_ExecutionsAPeriodApart ==
  (Live /\ ~cb.active) =>
    \A i \in Existing : \A k \in SubsOf(i) :
      LET r == executeSubscription(S, i, k, FALSE, now, TRUE) IN
      r.err = "ok" =>
        \A t \in now..(now + subscriptions[i][k].periodSeconds - 1) :
          Failed(executeSubscription(r.st, i, k, FALSE, t, TRUE).err)

====
